---- MODULE Spec2Model ----
(***************************************************************************)
(* The message store of the anonymous chat canister (Motoko actor) and the  *)
(* client send path that talks to it.                                       *)
(*                                                                          *)
(* The store is the actor with nonce deduplication and incremental fetch    *)
(* (activeRooms, messages, nextMessageId).  Text values are sequences of    *)
(* one-character strings so that trim and size are computed, not assumed.   *)
(* Time is counted in units of 24 hours, so messageTTL is 1 unit.           *)
(*                                                                          *)
(* Every canister method is a function of the store, the time and its       *)
(* arguments to an outcome: the store it leaves, and the reply (a trap, or  *)
(* the value returned).  The actions commit the outcome of one call.        *)
(***************************************************************************)
EXTENDS Integers, Sequences, FiniteSets, TLC

\* ------------------------------------------------------------------ bounds
MaxMsgs == 2
MaxTime == 2
MaxReact == 2
MaxSends == 2

\* ------------------------------------------------------- program constants
messageTTL == 1
MaxNicknameLen == 20
MaxJoinCodeLen == 30

\* --------------------------------------------------------------- text model
Pad(n) == [i \in 1..n |-> "x"]

RECURSIVE trimStart(_)
trimStart(t) == IF t # <<>> /\ Head(t) = " " THEN trimStart(Tail(t)) ELSE t

RECURSIVE trimEnd(_)
trimEnd(t) ==
  IF t # <<>> /\ t[Len(t)] = " " THEN trimEnd(SubSeq(t, 1, Len(t) - 1)) ELSE t

\* Text.trim(#char ' ')
trim(t) == trimEnd(trimStart(t))

\* ------------------------------------------------------------ input domains
RoomA == <<"a">>
RoomPadded == <<" ", "a">>
RoomCodes == {RoomA, RoomPadded, <<>>, Pad(MaxJoinCodeLen + 1)}
Nicknames == {<<"k">>, <<" ">>, Pad(MaxNicknameLen + 1)}
Contents == {"c1", "c2"}
Users == {"u1", "u2"}
Nonces == {"n1", "n2"}
Emojis == {"e1"}
Callers == {"admin", "anon"}
UserCallers == {"admin", "user"}
Null == "null"
NoTrap == "none"

VARIABLES
  activeRooms,    \* Set<Text>: the rooms created
  messages,       \* Map<Text, List<Message>>
  nextMessageId,  \* the id counter
  now,            \* Time.now()
  created,        \* history: the ids handed out, in the order of creation
  snap,           \* a reader's copy of getMessages(room), taken at some time T0
  chatContexts,   \* Map<Text, ()>: the rooms created (main.mo)
  sending,        \* the client's send mutation: mutationFn and its retry loop
  exec,           \* the update call the canister is executing, statement by statement
  cache           \* the client's query cache for ['messages', room] and its send mutation

storeVars == <<activeRooms, messages, nextMessageId, chatContexts>>
aux == <<exec, cache>>
vars == <<activeRooms, messages, nextMessageId, now, created, snap, chatContexts, sending,
          exec, cache>>

\* The store as one value: the actor's stable variables.
Store == [activeRooms |-> activeRooms, messages |-> messages,
          nextMessageId |-> nextMessageId, chatContexts |-> chatContexts]

\* ------------------------------------------------------------------ helpers
\* messages.add(roomId, list) on a map m
MapAdd(m, roomId, list) ==
  [k \in DOMAIN m \cup {roomId} |-> IF k = roomId THEN list ELSE m[k]]

\* List.find: the first of the indices that satisfy the predicate, 0 when
\* there is none
firstIndex(hits) ==
  IF hits = {} THEN 0 ELSE CHOOSE i \in hits : \A j \in hits : i <= j

\* ----------------------------------------------------------------- outcomes
\* Runtime.trap(msg): the call is rolled back, the store is as before it
Trap(s, msg) == [state |-> s, trap |-> msg, ret |-> Null, newIds |-> <<>>]

\* a call that returns r and leaves the store s
Return(s, r) == [state |-> s, trap |-> NoTrap, ret |-> r, newIds |-> <<>>]

\* a sendMessage that created the message messageId
ReturnCreated(s, messageId) ==
  [state |-> s, trap |-> NoTrap, ret |-> messageId, newIds |-> <<messageId>>]

\* ----------------------------------------------------------------- the store
ensureRoomMessages_OnlyRoom(m, roomId) ==
  [k \in DOMAIN m \cup {roomId} |-> IF k = roomId /\ k \in DOMAIN m THEN m[k] ELSE <<>>]
ensureRoomMessages(m, roomId) ==
  IF roomId \in DOMAIN m THEN m ELSE MapAdd(m, roomId, <<>>)

\* nextId(): the id handed out, and the counter it leaves behind
nextIdValue(counter) == counter
\* (mutant: the counter is left where it was)
nextIdCounter_Stuck(counter) == counter
nextIdCounter(counter) == counter + 1

\* (mutant: nothing ever expires for a reader)
isNotExpired_Never(t, message) == TRUE
isNotExpired(t, message) == (t - message.timestamp) <= messageTTL

convertMessageToView(message) ==
  [id |-> message.id, content |-> message.content, timestamp |-> message.timestamp,
   nickname |-> message.nickname, replyToId |-> message.replyToId,
   imageUrl |-> message.imageUrl, videoUrl |-> message.videoUrl,
   audioUrl |-> message.audioUrl, isEdited |-> message.isEdited,
   reactions |-> message.reactions, owner |-> message.owner, nonce |-> message.nonce]

validateNickname(input) ==
  LET trimmed == trim(input)
  IN IF Len(trimmed) = 0 THEN "Nickname cannot be empty"
     ELSE IF Len(trimmed) > MaxNicknameLen THEN "Nickname cannot exceed 20 characters"
     ELSE NoTrap

validateJoinCode(joinCode) ==
  LET trimmed == trim(joinCode)
  IN IF Len(trimmed) = 0 THEN "Room join code cannot be empty"
     ELSE IF Len(trimmed) > MaxJoinCodeLen THEN "Room join code cannot exceed 30 characters"
     ELSE NoTrap

roomExists(s, roomId) ==
  LET trimmed == trim(roomId)
  IN Len(trimmed) > 0 /\ trimmed \in s.activeRooms

createRoom(s, joinCode) ==
  IF validateJoinCode(joinCode) # NoTrap THEN Trap(s, validateJoinCode(joinCode))
  ELSE IF joinCode \in s.activeRooms THEN Trap(s, "Room already exists")
  ELSE Return([s EXCEPT !.activeRooms = @ \cup {joinCode}], joinCode)

\* msgs.map<Message, MessageView>(convertMessageToView).toArray()
toViews(msgs) == [i \in 1..Len(msgs) |-> convertMessageToView(msgs[i])]

getMessages(s, t, roomId) ==
  LET keep(msg) == isNotExpired(t, msg)
  IN IF validateJoinCode(roomId) # NoTrap THEN Trap(s, validateJoinCode(roomId))
     ELSE IF roomId \notin DOMAIN s.messages THEN Return(s, <<>>)
     ELSE Return(s, toViews(SelectSeq(s.messages[roomId], keep)))

\* (mutant: the message with the last id is fetched again)
fetchMessagesAfterId_Inclusive(s, t, roomId, lastId) ==
  LET keep(msg) == isNotExpired(t, msg) /\ msg.id >= lastId
  IN IF validateJoinCode(roomId) # NoTrap THEN Trap(s, validateJoinCode(roomId))
     ELSE IF roomId \notin DOMAIN s.messages THEN Return(s, <<>>)
     ELSE Return(s, toViews(SelectSeq(s.messages[roomId], keep)))

fetchMessagesAfterId(s, t, roomId, lastId) ==
  LET keep(msg) == isNotExpired(t, msg) /\ msg.id > lastId
  IN IF validateJoinCode(roomId) # NoTrap THEN Trap(s, validateJoinCode(roomId))
     ELSE IF roomId \notin DOMAIN s.messages THEN Return(s, <<>>)
     ELSE Return(s, toViews(SelectSeq(s.messages[roomId], keep)))

\* the nonce lookup of sendMessage: index of the first message of the list that
\* carries the nonce, 0 when there is none
findByNonce(roomMessages, nonce) ==
  LET sameNonce(msg) == msg.nonce # Null /\ msg.nonce = nonce
  IN firstIndex({i \in 1..Len(roomMessages) : sameNonce(roomMessages[i])})

\* the replay test of sendMessage on the message found
isReplay(duplicate, userId, content) ==
  duplicate.owner = userId /\ duplicate.content = content

newMessage(messageId, t, content, validNickname, userId, replyToId, image, video, audio, nonce) ==
  [id |-> messageId, content |-> content, timestamp |-> t,
   nickname |-> validNickname, replyToId |-> replyToId, imageUrl |-> image,
   videoUrl |-> video, audioUrl |-> audio, isEdited |-> FALSE,
   reactions |-> <<>>, owner |-> userId, nonce |-> nonce]

\* (mutant: the new message is put in front)
appendMessage_Front(roomMessages, message) == <<message>> \o roomMessages
\* roomMessages.add(newMessage)
appendMessage(roomMessages, message) == Append(roomMessages, message)

sendMessage(s, t, roomId, content, nickname, userId, replyToId, image, video, audio, nonce) ==
  LET withRoom == ensureRoomMessages(s.messages, roomId)
      roomMessages == withRoom[roomId]
      existing == findByNonce(roomMessages, nonce)
      messageId == nextIdValue(s.nextMessageId)
      message == newMessage(messageId, t, content, trim(nickname), userId,
                            replyToId, image, video, audio, nonce)
  IN IF validateNickname(nickname) # NoTrap THEN Trap(s, validateNickname(nickname))
     ELSE IF validateJoinCode(roomId) # NoTrap THEN Trap(s, validateJoinCode(roomId))
     ELSE IF existing # 0 /\ isReplay(roomMessages[existing], userId, content)
       THEN Return([s EXCEPT !.messages = withRoom], roomMessages[existing].id)
     ELSE ReturnCreated(
            [s EXCEPT !.nextMessageId = nextIdCounter(@),
                      !.messages = MapAdd(withRoom, roomId,
                                          appendMessage(roomMessages, message))],
            messageId)

indexOfId(msgs, messageId) ==
  LET sameId(msg) == msg.id = messageId
  IN firstIndex({i \in 1..Len(msgs) : sameId(msgs[i])})

\* (mutant: the edited message loses its reactions)
editedList_DroppingReactions(msgs, messageId, newContent, newImage, newVideo, newAudio) ==
  LET upd(msg) == IF msg.id = messageId
                    THEN [msg EXCEPT !.content = newContent, !.isEdited = TRUE,
                                     !.imageUrl = newImage, !.videoUrl = newVideo,
                                     !.audioUrl = newAudio, !.reactions = <<>>]
                    ELSE msg
  IN [i \in 1..Len(msgs) |-> upd(msgs[i])]
\* the list editMessage stores back
editedList(msgs, messageId, newContent, newImage, newVideo, newAudio) ==
  LET upd(msg) == IF msg.id = messageId
                    THEN [msg EXCEPT !.content = newContent, !.isEdited = TRUE,
                                     !.imageUrl = newImage, !.videoUrl = newVideo,
                                     !.audioUrl = newAudio]
                    ELSE msg
  IN [i \in 1..Len(msgs) |-> upd(msgs[i])]

\* the ownership test of editMessage and deleteMessage
ownerMismatch(targetMsg, userId) == targetMsg.owner # userId

editMessage(s, roomId, messageId, userId, newContent, newImage, newVideo, newAudio) ==
  LET msgs == s.messages[roomId]
      target == indexOfId(msgs, messageId)
  IN IF validateJoinCode(roomId) # NoTrap THEN Trap(s, validateJoinCode(roomId))
     ELSE IF roomId \notin DOMAIN s.messages THEN Return(s, FALSE)
     ELSE IF target = 0 THEN Return(s, FALSE)
     ELSE IF ownerMismatch(msgs[target], userId) THEN Return(s, FALSE)
     ELSE Return([s EXCEPT !.messages = MapAdd(@, roomId,
                    editedList(msgs, messageId, newContent, newImage, newVideo, newAudio))],
                 TRUE)

\* the list deleteMessage stores back
deletedList(msgs, messageId) ==
  LET keep(msg) == msg.id # messageId
  IN SelectSeq(msgs, keep)

deleteMessage(s, roomId, messageId, userId) ==
  LET msgs == s.messages[roomId]
      target == indexOfId(msgs, messageId)
  IN IF validateJoinCode(roomId) # NoTrap THEN Trap(s, validateJoinCode(roomId))
     ELSE IF roomId \notin DOMAIN s.messages THEN Return(s, FALSE)
     ELSE IF target = 0 THEN Return(s, FALSE)
     ELSE IF ownerMismatch(msgs[target], userId) THEN Return(s, FALSE)
     ELSE Return([s EXCEPT !.messages = MapAdd(@, roomId, deletedList(msgs, messageId))],
                 TRUE)

\* msg.reactions.add(newReaction)
reactionsAfterAdd(reactions, userId, emoji) ==
  Append(reactions, [userId |-> userId, emoji |-> emoji])

addReaction(s, roomId, messageId, userId, emoji) ==
  LET upd(msg) == IF msg.id = messageId
                    THEN [msg EXCEPT !.reactions = reactionsAfterAdd(@, userId, emoji)]
                    ELSE msg
      updatedMessages == [i \in 1..Len(s.messages[roomId]) |-> upd(s.messages[roomId][i])]
  IN IF validateJoinCode(roomId) # NoTrap THEN Trap(s, validateJoinCode(roomId))
     ELSE IF roomId \notin DOMAIN s.messages THEN Return(s, FALSE)
     ELSE Return([s EXCEPT !.messages = MapAdd(@, roomId, updatedMessages)],
                 TRUE)

\* (mutant: every reaction of the user is filtered out, whatever its emoji)
reactionsAfterRemove_ByUser(reactions, userId, emoji) ==
  LET keep(reaction) == reaction.userId # userId
  IN SelectSeq(reactions, keep)
reactionsAfterRemove(reactions, userId, emoji) ==
  LET keep(reaction) == ~(reaction.userId = userId /\ reaction.emoji = emoji)
  IN SelectSeq(reactions, keep)

removeReaction(s, roomId, messageId, userId, emoji) ==
  LET upd(msg) == IF msg.id = messageId
                    THEN [msg EXCEPT !.reactions = reactionsAfterRemove(@, userId, emoji)]
                    ELSE msg
      updatedMessages == [i \in 1..Len(s.messages[roomId]) |-> upd(s.messages[roomId][i])]
  IN IF validateJoinCode(roomId) # NoTrap THEN Trap(s, validateJoinCode(roomId))
     ELSE IF roomId \notin DOMAIN s.messages THEN Return(s, FALSE)
     ELSE Return([s EXCEPT !.messages = MapAdd(@, roomId, updatedMessages)],
                 TRUE)

\* AccessControl.hasPermission(accessControlState, caller, #admin)
hasAdminPermission(caller) == caller = "admin"

\* first loop of pruneExpiredMessages: every list keeps its unexpired messages
prunedLists(m, t) ==
  LET keep(msg) == t - msg.timestamp <= messageTTL
  IN [k \in DOMAIN m |-> SelectSeq(m[k], keep)]

\* the order of the keys of a Map<Text, _>: Text.compare, character by character
CharCode(c) == CASE c = " " -> 32 [] c = "a" -> 97 [] OTHER -> 120

RECURSIVE textLess(_, _)
textLess(a, b) ==
  IF a = <<>> THEN b # <<>>
  ELSE IF b = <<>> THEN FALSE
  ELSE IF Head(a) = Head(b) THEN textLess(Tail(a), Tail(b))
  ELSE CharCode(Head(a)) < CharCode(Head(b))

\* the lists the second loop is written to remove: empty, and of a room that
\* is not active
orphans(m, active) == {r \in DOMAIN m : Len(m[r]) = 0 /\ r \notin active}

\* The second loop removes entries from the map whose entries() it is
\* iterating.  Up to the first removal the iteration is the one of the map;
\* what the iterator yields after a removal is not defined by Map, so every
\* orphan after the first one is either visited (and removed) or passed over.
passedOverChoices(m, active) ==
  LET o == orphans(m, active)
      first == CHOOSE r \in o : \A q \in o \ {r} : textLess(r, q)
  IN IF o = {} THEN {{}} ELSE SUBSET (o \ {first})

\* second loop: the orphans the iterator visits are removed
withoutOrphans(m, active, passedOver) ==
  [k \in DOMAIN m \ (orphans(m, active) \ passedOver) |-> m[k]]

pruneExpiredMessages(s, t, caller, passedOver) ==
  IF ~hasAdminPermission(caller)
    THEN Trap(s, "Unauthorized: Only admins can prune messages")
  ELSE Return([s EXCEPT !.messages =
                 withoutOrphans(prunedLists(@, t), s.activeRooms, passedOver)],
              TRUE)

\* ------------------------------------------ main.mo: rooms and sendMessage
\* AccessControl.hasPermission(accessControlState, caller, #user)
hasUserPermission(caller) == caller \in UserCallers

\* the texts createRoom returns in place of a room code (a text is a sequence:
\* these are one element long, and no room code of the inputs equals them)
EmptyCodeText == <<"Room join code cannot be empty or whitespace only">>
AlreadyExistsText == <<"Room already exists">>

createRoom_main(s, caller, joinCode) ==
  LET trimmed == trim(joinCode)
  IN IF ~hasUserPermission(caller)
       THEN Trap(s, "Unauthorized: Only users can create rooms")
     ELSE IF Len(trimmed) = 0
       THEN Return(s, EmptyCodeText)
     ELSE IF trimmed \in s.chatContexts THEN Return(s, AlreadyExistsText)
     ELSE Return([s EXCEPT !.chatContexts = @ \cup {trimmed}], trimmed)

newMessage_main(messageId, t, content, nickname, userId, replyToId, image, video, audio) ==
  [id |-> messageId, content |-> content, timestamp |-> t,
   nickname |-> nickname, replyToId |-> replyToId, imageUrl |-> image,
   videoUrl |-> video, audioUrl |-> audio, isEdited |-> FALSE,
   reactions |-> <<>>, owner |-> userId]

sendMessage_main(s, t, roomId, content, nickname, userId, replyToId, image, video, audio) ==
  LET trimmedRoomId == trim(roomId)
      messageId == nextIdValue(s.nextMessageId)
      message == newMessage_main(messageId, t, content, nickname, userId,
                                 replyToId, image, video, audio)
      withRoom == ensureRoomMessages(s.messages, trimmedRoomId)
  IN IF Len(trimmedRoomId) = 0 \/ trimmedRoomId \notin s.chatContexts
       THEN Return(s, 0)
     ELSE ReturnCreated(
            [s EXCEPT !.nextMessageId = nextIdCounter(@),
                      !.messages = MapAdd(withRoom, trimmedRoomId,
                                          appendMessage(withRoom[trimmedRoomId], message))],
            messageId)

\* AccessControl.isAdmin(accessControlState, caller)
isAdmin(caller) == caller = "admin"

\* main.mo's MessageView has neither owner nor nonce
convertMessageToView_main(message) ==
  [id |-> message.id, content |-> message.content, timestamp |-> message.timestamp,
   nickname |-> message.nickname, replyToId |-> message.replyToId,
   imageUrl |-> message.imageUrl, videoUrl |-> message.videoUrl,
   audioUrl |-> message.audioUrl, isEdited |-> message.isEdited,
   reactions |-> message.reactions]

toViews_main(msgs) == [i \in 1..Len(msgs) |-> convertMessageToView_main(msgs[i])]

getMessages_main(s, t, roomId) ==
  LET trimmed == trim(roomId)
      keep(msg) == isNotExpired(t, msg)
  IN IF Len(trimmed) = 0 THEN Return(s, <<>>)
     ELSE IF trimmed \notin s.chatContexts /\ trimmed \notin DOMAIN s.messages
       THEN Return(s, <<>>)
     ELSE IF trimmed \notin DOMAIN s.messages THEN Return(s, <<>>)
     ELSE Return(s, toViews_main(SelectSeq(s.messages[trimmed], keep)))

editMessage_main(s, caller, roomId, messageId, userId, newContent, newImage, newVideo, newAudio) ==
  LET msgs == s.messages[roomId]
      target == indexOfId(msgs, messageId)
  IN IF ~hasUserPermission(caller)
       THEN Trap(s, "Unauthorized: Only users can edit messages")
     ELSE IF roomId \notin DOMAIN s.messages THEN Return(s, FALSE)
     ELSE IF target = 0 THEN Return(s, FALSE)
     ELSE IF ownerMismatch(msgs[target], userId) THEN Return(s, FALSE)
     ELSE Return([s EXCEPT !.messages = MapAdd(@, roomId,
                    editedList(msgs, messageId, newContent, newImage, newVideo, newAudio))],
                 TRUE)

deleteMessage_main(s, caller, roomId, messageId, userId) ==
  LET msgs == s.messages[roomId]
      target == indexOfId(msgs, messageId)
  IN IF ~hasUserPermission(caller)
       THEN Trap(s, "Unauthorized: Only users can delete messages")
     ELSE IF roomId \notin DOMAIN s.messages THEN Return(s, FALSE)
     ELSE IF target = 0 THEN Return(s, FALSE)
     ELSE IF ownerMismatch(msgs[target], userId) THEN Return(s, FALSE)
     ELSE Return([s EXCEPT !.messages = MapAdd(@, roomId, deletedList(msgs, messageId))],
                 TRUE)

addReaction_main(s, roomId, messageId, userId, emoji) ==
  LET upd(msg) == IF msg.id = messageId
                    THEN [msg EXCEPT !.reactions = reactionsAfterAdd(@, userId, emoji)]
                    ELSE msg
      updatedMessages == [i \in 1..Len(s.messages[roomId]) |-> upd(s.messages[roomId][i])]
  IN IF roomId \notin DOMAIN s.messages THEN Return(s, FALSE)
     ELSE Return([s EXCEPT !.messages = MapAdd(@, roomId, updatedMessages)], TRUE)

removeReaction_main(s, roomId, messageId, userId, emoji) ==
  LET upd(msg) == IF msg.id = messageId
                    THEN [msg EXCEPT !.reactions = reactionsAfterRemove(@, userId, emoji)]
                    ELSE msg
      updatedMessages == [i \in 1..Len(s.messages[roomId]) |-> upd(s.messages[roomId][i])]
  IN IF roomId \notin DOMAIN s.messages THEN Return(s, FALSE)
     ELSE Return([s EXCEPT !.messages = MapAdd(@, roomId, updatedMessages)], TRUE)

\* first loop of pruneExpiredMessages: the lists of the rooms of chatContexts
\* keep their unexpired messages
prunedLists_main(m, contexts, t) ==
  LET keep(msg) == t - msg.timestamp <= messageTTL
  IN [k \in DOMAIN m |-> IF k \in contexts THEN SelectSeq(m[k], keep) ELSE m[k]]

pruneExpiredMessages_main(s, t, caller, passedOver) ==
  IF ~isAdmin(caller)
    THEN Trap(s, "Unauthorized: Only admins can prune messages")
  ELSE Return([s EXCEPT !.messages =
                 withoutOrphans(prunedLists_main(@, s.chatContexts, t), s.activeRooms,
                                passedOver)],
              TRUE)

\* ------------------------------- the actor without nonce and without gate
\* (the version of the actor whose sendMessage requires the room and whose
\* prune is open to every caller)
createRoom_open(s, joinCode) ==
  LET trimmed == trim(joinCode)
  IN IF Len(trimmed) = 0
       THEN Trap(s, "Room join code cannot be empty or whitespace only")
     ELSE IF Len(trimmed) > MaxJoinCodeLen
       THEN Trap(s, "Room join code cannot exceed 30 characters")
     ELSE IF trimmed \in s.activeRooms THEN Trap(s, "Room already exists")
     ELSE Return([s EXCEPT !.activeRooms = @ \cup {trimmed}], trimmed)

sendMessage_open(s, t, roomId, content, nickname, userId, replyToId, image, video, audio) ==
  LET trimmedRoomId == trim(roomId)
      messageId == nextIdValue(s.nextMessageId)
      message == newMessage_main(messageId, t, content, trim(nickname), userId,
                                 replyToId, image, video, audio)
      withRoom == ensureRoomMessages(s.messages, trimmedRoomId)
  IN IF validateNickname(nickname) # NoTrap THEN Trap(s, validateNickname(nickname))
     ELSE IF Len(trimmedRoomId) = 0 \/ trimmedRoomId \notin s.activeRooms
       THEN Trap(s, "Cannot send message: Room does not exist")
     ELSE ReturnCreated(
            [s EXCEPT !.nextMessageId = nextIdCounter(@),
                      !.messages = MapAdd(withRoom, trimmedRoomId,
                                          appendMessage(withRoom[trimmedRoomId], message))],
            messageId)

pruneExpiredMessages_open(s, t, caller, passedOver) ==
  Return([s EXCEPT !.messages =
            withoutOrphans(prunedLists(@, t), s.activeRooms, passedOver)],
         TRUE)

\* ------------------------------------------- the client: retryWithBackoff
\* options of the retry in useSendMessage
maxAttempts == 3
initialDelayMs == 200
maxDelayMs == 2000

\* An error as isTransientError reads it: the keywords its lower-cased message
\* contains, and its reject_code (0 when it has none).
Error(words, rejectCode) == [words |-> words, reject_code |-> rejectCode]
FailedToFetch == Error({"fetch", "failed to fetch"}, 0)
SysUnknown == Error({}, 2)
CanisterReject == Error({}, 4)
NetworkErrors == {FailedToFetch, SysUnknown}
\* the rejects of a sendMessage that trapped: validation and not-found
NicknameTooLong == Error({"nickname cannot exceed 20 characters"}, 5)
RoomNotFound == Error({"cannot send message: room does not exist", "room does not exist"}, 5)
TrapErrors == {NicknameTooLong, RoomNotFound}
CallErrors == NetworkErrors \cup {CanisterReject}
\* the errors a getMessages call of the poll ends with
PollErrors == CallErrors \cup {RoomNotFound}

isTransientError_Always(error) == TRUE
isTransientError(error) ==
  \/ error.words \cap {"network", "fetch", "timeout", "connection", "failed to fetch"} # {}
  \/ error.words \cap {"replica", "unavailable", "temporary"} # {}
  \/ error.reject_code \in {1, 2}

Min(a, b) == IF a <= b THEN a ELSE b

\* Math.min(initialDelayMs * Math.pow(2, attempt), maxDelayMs)
retryDelay(attempt) == Min(initialDelayMs * (2 ^ attempt), maxDelayMs)

\* sanitizeChatError(err), on the errors of this model: the branches it takes
\* are decided by the words of the message; an error whose message carries none
\* of the words it looks for gets the default text
NetworkErrorText == "Network error. Please check your connection and try again."
DefaultErrorText == "An error occurred. Please try again."
ModifyOwnText == "You can only modify your own messages"
FailedToEditText == "Failed to edit message. Please try again."
FailedToDeleteText == "Failed to delete message. Please try again."
FailedReactionText == "Failed to update reaction. Please try again."
NicknameTooLongText == "Nickname cannot exceed 20 characters"
RoomNotFoundText == "Room does not exist. Please check the room code."
sanitizeChatError(error) ==
  IF "nickname cannot exceed 20 characters" \in error.words THEN NicknameTooLongText
  ELSE IF error.words \cap {"cannot send message: room does not exist",
                            "room does not exist"} # {}
    THEN RoomNotFoundText
  ELSE IF error.words \cap {"unauthorized: only users can edit messages",
                       "unauthorized: only users can delete messages"} # {}
    THEN ModifyOwnText
  ELSE IF error.words \cap {"network", "fetch", "timeout"} # {} THEN NetworkErrorText
  ELSE IF "failed to edit" \in error.words THEN FailedToEditText
  ELSE IF "failed to delete" \in error.words THEN FailedToDeleteText
  ELSE IF error.words \cap {"failed to add reaction", "failed to remove reaction"} # {}
    THEN FailedReactionText
  ELSE DefaultErrorText

\* getUserId(): the id of this browser
ClientUserId == "u1"

\* calls and lastError are history: the number of invocations of fn() that
\* have settled, and the error of the last one that failed
NoError == Error({}, 0)

\* The record logChatOperationError writes to the console: nothing yet, or the
\* operation, the context its caller built, the sanitized message and the raw
\* error.
NoLogContext == [roomId |-> <<>>, nickname |-> <<>>, hasContent |-> FALSE,
                 hasImage |-> FALSE, hasVideo |-> FALSE, hasAudio |-> FALSE]
NoLog == [emitted |-> FALSE, operation |-> "", context |-> NoLogContext,
          sanitizedMessage |-> "", rawError |-> NoError]
createChatOperationError(operation, context, sanitizedMessage, rawError) ==
  [emitted |-> TRUE, operation |-> operation, context |-> context,
   sanitizedMessage |-> sanitizedMessage, rawError |-> rawError]

\* The send mutationFn in hand; `logged` is the record its catch block wrote to
\* the console.
Idle == [pc |-> "idle", attempt |-> 0, delay |-> 0, roomId |-> <<>>,
         content |-> "", nickname |-> <<>>, applied |-> <<>>, result |-> Null,
         calls |-> 0, lastError |-> NoError, logged |-> NoLog]

\* The query cache of the room and the lifecycle of one send mutation.
\*   data     getQueryData(['messages', room]): Undefined when the query has
\*            no data, Defined(list) when it has
\*   fetch    the queryFn in flight, with the reply on its way
\*   kind     the mutation in hand: "send", "delete", "edit", "addReaction" or
\*            "removeReaction"
\*   variables  the variables of a delete, edit or reaction
\*   pc       the mutation: "idle", "mutated" (onMutate done), "running"
\*            (mutationFn called), "success" or "error" (settled)
\*   context  what onMutate returned
\*   sends    the number of mutations started
\*   error    the message of the error the mutation ended with
\*   refreshed  history: a fetch called after the send in hand succeeded has
\*            completed
\*   polledInFlight  history: the data are the reply of a fetch that completed
\*            while the mutation in hand was in flight
\*   inRoom   App's currentRoom is the room: ChatRoom is mounted, and with it
\*            useMessages
\*   visible  document.visibilityState === 'visible'
\*   queryError  query.state.error: the error the last fetch ended with,
\*            NoError when it ended with data or none has ended
\*   refetch  a fetch has been asked for (invalidateQueries, or the mount of
\*            ChatRoom) while the interval is off, and not yet been started
\*   fetchFailed  console.error('Failed to fetch messages:', error) was written
\*            by the catch block of queryFn since the last fetch started
\*   second   the reaction mutation that overlaps the mutation in hand
\* and of the fetch in flight:
\*   pc       "call" (queryFn is running) or "wait" (it threw, and the retry
\*            waits for its delay)
\*   failureCount, delay  the failures of this fetch so far, and the delay of
\*            the retry being waited for
Undefined == [defined |-> FALSE, value |-> <<>>]
Defined(value) == [defined |-> TRUE, value |-> value]
NoFetch == [flying |-> FALSE, reply |-> <<>>, afterSuccess |-> FALSE,
            pc |-> "call", failureCount |-> 0, delay |-> 0, forced |-> FALSE]
NoContext == [previousMessages |-> Undefined, optimisticId |-> 0]
NoVariables == [messageId |-> 0, newContent |-> "", emoji |-> ""]
\* a reaction mutation started while the mutation in hand is in flight: "idle"
\* (none), "flying", "success" or "error", its variables and the copy of the
\* cache its onMutate took
NoSecond == [pc |-> "idle", roomId |-> <<>>, messageId |-> 0, emoji |-> "",
             previousMessages |-> Undefined]
\* handleJumpToMessage: "idle" or "refetching" (awaiting refetch()), the id it
\* looks for, the refetch() calls it made and how it ended
NoJump == [pc |-> "idle", messageId |-> 0, calls |-> 0, result |-> "none"]
NoCache == [data |-> Undefined, fetch |-> NoFetch, kind |-> "none",
            variables |-> NoVariables, pc |-> "idle", context |-> NoContext,
            sends |-> 0, error |-> Null, refreshed |-> FALSE,
            polledInFlight |-> FALSE, inRoom |-> TRUE, visible |-> TRUE,
            queryError |-> NoError, refetch |-> FALSE, fetchFailed |-> FALSE,
            second |-> NoSecond, jump |-> NoJump]

\* ------------------------------------------------------------------ actions
\* no update call is being executed
NoExec == [op |-> "none", pc |-> "done"]

NoSnap == [taken |-> FALSE, room |-> <<>>, view |-> <<>>, mutated |-> FALSE]

Init ==
  /\ activeRooms = {}
  /\ messages = <<>>
  /\ nextMessageId = 0
  /\ now = 0
  /\ created = <<>>
  /\ snap = NoSnap
  /\ chatContexts = {}
  /\ sending = Idle
  /\ exec = NoExec
  /\ cache = NoCache

\* the store after a call is the store of its outcome; `created` records the
\* ids handed out, in the order of their creation, and `snap` whether a stored
\* message was edited, deleted or reacted to since the copy was taken
Apply(outcome) ==
  /\ Len(created) + Len(outcome.newIds) <= MaxMsgs
  /\ \A k \in DOMAIN outcome.state.messages :
       \A i \in 1..Len(outcome.state.messages[k]) :
         Len(outcome.state.messages[k][i].reactions) <= MaxReact
  /\ activeRooms' = outcome.state.activeRooms
  /\ messages' = outcome.state.messages
  /\ nextMessageId' = outcome.state.nextMessageId
  /\ chatContexts' = outcome.state.chatContexts
  /\ created' = created \o outcome.newIds

\* a call made directly to the canister
Commit(outcome, mutates) ==
  /\ Apply(outcome)
  /\ snap' = IF snap.taken /\ mutates THEN [snap EXCEPT !.mutated = TRUE] ELSE snap
  /\ UNCHANGED <<now, sending, aux>>

\* Time.now() advances between calls
Tick ==
  /\ now < MaxTime
  /\ now' = now + 1
  /\ UNCHANGED <<storeVars, created, snap, sending, aux>>

MessageIds == 0..MaxMsgs

\* Each call takes its arguments from the record of input sets `in`; the
\* specifications below differ only in the input sets they draw from.
CreateRoom(in) == \E c \in in.rooms : Commit(createRoom(Store, c), FALSE)

SendMessage(in) ==
  \E r \in in.rooms, c \in in.contents, k \in in.nicknames, u \in in.users, n \in in.nonces :
    Commit(sendMessage(Store, now, r, c, k, u, Null, Null, Null, Null, n), FALSE)

EditMessage(in) ==
  \E r \in in.rooms, i \in MessageIds, u \in in.users, c \in in.editContents :
    Commit(editMessage(Store, r, i, u, c, "img", Null, Null), TRUE)

DeleteMessage(in) ==
  \E r \in in.rooms, i \in MessageIds, u \in in.users :
    Commit(deleteMessage(Store, r, i, u), TRUE)

AddReaction(in) ==
  \E r \in in.rooms, i \in MessageIds, u \in in.reactors, e \in in.emojis :
    Commit(addReaction(Store, r, i, u, e), TRUE)

RemoveReaction(in) ==
  \E r \in in.rooms, i \in MessageIds, u \in in.reactors, e \in in.emojis :
    Commit(removeReaction(Store, r, i, u, e), TRUE)

PruneExpiredMessages(in) ==
  \E c \in in.callers :
    \E passedOver \in passedOverChoices(prunedLists(messages, now), activeRooms) :
      Commit(pruneExpiredMessages(Store, now, c, passedOver), FALSE)

\* ---------------------------------------------------- the client's actions
\* mutationFn up to the first attempt: the input is trimmed and validated
validatedSend(r, c, k) ==
  IF Len(trim(r)) = 0 THEN [Idle EXCEPT !.pc = "failed", !.result = "Room ID is required"]
  ELSE IF Len(trim(k)) = 0
    THEN [Idle EXCEPT !.pc = "failed", !.result = "Nickname is required"]
  ELSE IF c = ""
    THEN [Idle EXCEPT !.pc = "failed", !.result = "Message content or media is required"]
  ELSE [Idle EXCEPT !.pc = "attempt", !.roomId = trim(r), !.content = c,
                    !.nickname = trim(k)]

StartSend(in) ==
  \E r \in in.rooms, c \in in.contents, k \in in.nicknames :
    /\ sending.pc \in {"idle", "done", "failed"}
    /\ sending' = validatedSend(r, c, k)
    /\ UNCHANGED <<storeVars, now, created, snap, aux>>

\* the call of one attempt, as the canister executes it
AttemptCall ==
  sendMessage_main(Store, now, sending.roomId, sending.content, sending.nickname,
                   ClientUserId, Null, Null, Null, Null)

\* the catch block of retryWithBackoff: throw, or wait and try again
afterError_Unbounded(st, error) ==
  IF ~isTransientError(error)
    THEN [st EXCEPT !.pc = "failed", !.result = sanitizeChatError(error),
                    !.calls = @ + 1, !.lastError = error]
  ELSE [st EXCEPT !.pc = "backoff", !.delay = retryDelay(st.attempt),
                  !.calls = @ + 1, !.lastError = error]
afterError(st, error) ==
  IF st.attempt = maxAttempts - 1
    THEN [st EXCEPT !.pc = "failed", !.result = sanitizeChatError(error),
                    !.calls = @ + 1, !.lastError = error]
  ELSE IF ~isTransientError(error)
    THEN [st EXCEPT !.pc = "failed", !.result = sanitizeChatError(error),
                    !.calls = @ + 1, !.lastError = error]
  ELSE [st EXCEPT !.pc = "backoff", !.delay = retryDelay(st.attempt),
                  !.calls = @ + 1, !.lastError = error]

\* the catch block of the send mutationFn, entered when retryWithBackoff has
\* thrown: the structured error is built and logged
sendContext(st) ==
  [roomId |-> st.roomId, nickname |-> st.nickname, hasContent |-> st.content # "",
   hasImage |-> FALSE, hasVideo |-> FALSE, hasAudio |-> FALSE]
mutationFnCatch(st, error) ==
  IF st.pc = "failed"
    THEN [st EXCEPT !.logged = createChatOperationError("sendMessage", sendContext(st),
                                                        sanitizeChatError(error), error)]
  ELSE st

\* an attempt that the canister executes and answers
AttemptReplied ==
  /\ sending.pc = "attempt"
  /\ Apply(AttemptCall)
  /\ sending' = [sending EXCEPT !.pc = "done", !.result = AttemptCall.ret,
                                !.applied = @ \o AttemptCall.newIds,
                                !.calls = @ + 1]
  /\ UNCHANGED <<now, snap, aux>>

\* an attempt that never reaches the canister
AttemptNotDelivered ==
  \E error \in CallErrors :
    /\ sending.pc = "attempt"
    /\ sending' = mutationFnCatch(afterError(sending, error), error)
    /\ UNCHANGED <<storeVars, now, created, snap, aux>>

\* an attempt that the canister executes, and whose reply is lost
AttemptReplyLost ==
  \E error \in NetworkErrors :
    /\ sending.pc = "attempt"
    /\ Apply(AttemptCall)
    /\ sending' = [mutationFnCatch(afterError(sending, error), error)
                     EXCEPT !.applied = @ \o AttemptCall.newIds]
    /\ UNCHANGED <<now, snap, aux>>

\* an attempt that the canister rejects: the call trapped, the store is as it
\* was
AttemptRejected ==
  \E error \in TrapErrors :
    /\ sending.pc = "attempt"
    /\ sending' = mutationFnCatch(afterError(sending, error), error)
    /\ UNCHANGED <<storeVars, now, created, snap, aux>>

\* the delay has passed: the next turn of the for loop
RetryAfterDelay ==
  /\ sending.pc = "backoff"
  /\ sending' = [sending EXCEPT !.pc = "attempt", !.attempt = @ + 1]
  /\ UNCHANGED <<storeVars, now, created, snap, aux>>

CreateRoomMain(in) ==
  \E caller \in in.callers, c \in in.rooms : Commit(createRoom_main(Store, caller, c), FALSE)

SendMessageMain(in) ==
  \E r \in in.rooms, c \in in.contents, k \in in.nicknames, u \in in.users :
    Commit(sendMessage_main(Store, now, r, c, k, u, Null, Null, Null, Null), FALSE)

EditMessageMain(in) ==
  \E caller \in in.callers, r \in in.rooms, id \in MessageIds, u \in in.users,
     c \in in.editContents :
    Commit(editMessage_main(Store, caller, r, id, u, c, "img", Null, Null), TRUE)

DeleteMessageMain(in) ==
  \E caller \in in.callers, r \in in.rooms, id \in MessageIds, u \in in.users :
    Commit(deleteMessage_main(Store, caller, r, id, u), TRUE)

PruneExpiredMessagesMain(in) ==
  \E caller \in in.callers :
    \E passedOver \in passedOverChoices(prunedLists_main(messages, chatContexts, now),
                                        activeRooms) :
      Commit(pruneExpiredMessages_main(Store, now, caller, passedOver), FALSE)

AllInputs ==
  [rooms |-> RoomCodes, contents |-> Contents, nicknames |-> Nicknames,
   users |-> Users, nonces |-> Nonces, editContents |-> Contents,
   reactors |-> Users, emojis |-> Emojis, callers |-> Callers,
   pollErrors |-> PollErrors]

\* Every operation of the store, on one room (and an invalid room code) and
\* with one participant.
StoreInputs ==
  [AllInputs EXCEPT !.rooms = {RoomA, <<>>}, !.contents = {"c1"},
                    !.editContents = {"c2"}, !.users = {"u1"},
                    !.reactors = {"u1"}, !.nicknames = {<<"k">>}]

Next ==
  \/ CreateRoom(StoreInputs)
  \/ SendMessage(StoreInputs)
  \/ EditMessage(StoreInputs)
  \/ DeleteMessage(StoreInputs)
  \/ AddReaction(StoreInputs)
  \/ RemoveReaction(StoreInputs)
  \/ PruneExpiredMessages(StoreInputs)
  \/ Tick

Spec == Init /\ [][Next]_vars

\* Creating rooms, sending and deleting with every argument varied, the time
\* standing still.
SendInputs ==
  [AllInputs EXCEPT !.rooms = {RoomA, RoomPadded, <<>>},
                    !.nicknames = {<<"k">>, <<" ">>}]

NextSend ==
  \/ CreateRoom(SendInputs)
  \/ SendMessage(SendInputs)
  \/ DeleteMessage(SendInputs)

SpecSend == Init /\ [][NextSend]_vars

\* Two rooms and two participants; messages are sent, deleted, expire and are
\* pruned.
TTLInputs ==
  [AllInputs EXCEPT !.rooms = {RoomA, RoomPadded, <<>>}, !.contents = {"c1"},
                    !.nicknames = {<<"k">>}]

NextTTL ==
  \/ CreateRoom(TTLInputs)
  \/ SendMessage(TTLInputs)
  \/ DeleteMessage(TTLInputs)
  \/ PruneExpiredMessages(TTLInputs)
  \/ Tick

SpecTTL == Init /\ [][NextTTL]_vars

\* A reader copies getMessages(room) at a time T0 of its choice.
TakeSnapshot(in) ==
  \E r \in in.rooms :
    /\ getMessages(Store, now, r).trap = NoTrap
    /\ snap' = [taken |-> TRUE, room |-> r,
                view |-> getMessages(Store, now, r).ret, mutated |-> FALSE]
    /\ UNCHANGED <<storeVars, now, created, sending, aux>>

\* One room read incrementally while messages are sent, edited, deleted,
\* expire and are pruned.
FetchInputs ==
  [StoreInputs EXCEPT !.rooms = {RoomA}, !.callers = {"admin"}]

NextFetch ==
  \/ SendMessage(FetchInputs)
  \/ EditMessage(FetchInputs)
  \/ DeleteMessage(FetchInputs)
  \/ PruneExpiredMessages(FetchInputs)
  \/ TakeSnapshot(FetchInputs)
  \/ Tick

SpecFetch == Init /\ [][NextFetch]_vars

\* The client sends through its retry loop to the canister of main.mo, over a
\* network that loses calls and replies.
RetryInputs ==
  [AllInputs EXCEPT !.rooms = {RoomA, RoomPadded, <<>>}, !.contents = {"c1", ""},
                    !.nicknames = {<<"k">>, <<" ">>}, !.callers = {"user", "anon"}]

NextRetry ==
  \/ CreateRoomMain(RetryInputs)
  \/ StartSend(RetryInputs)
  \/ AttemptReplied
  \/ AttemptNotDelivered
  \/ AttemptReplyLost
  \/ AttemptRejected
  \/ RetryAfterDelay
  \/ Tick

SpecRetry == Init /\ [][NextRetry]_vars

\* Every invocation of fn() settles (the call is answered or fails), and the
\* timer of a backoff fires.
SpecRetryFair ==
  /\ Init /\ [][NextRetry]_vars
  /\ WF_vars(AttemptReplied \/ AttemptNotDelivered \/ AttemptReplyLost \/ AttemptRejected)
  /\ WF_vars(RetryAfterDelay)

\* The canister of main.mo, called by an admin, a user and a guest.
MainCallers == {"admin", "user", "guest"}

MainInputs ==
  [AllInputs EXCEPT !.rooms = {RoomA, RoomPadded, Pad(MaxJoinCodeLen + 1)},
                    !.contents = {"c1"}, !.editContents = {"c2"},
                    !.nicknames = {<<"k">>, <<" ">>}, !.callers = MainCallers]

NextMain ==
  \/ CreateRoomMain(MainInputs)
  \/ SendMessageMain(MainInputs)
  \/ EditMessageMain(MainInputs)
  \/ DeleteMessageMain(MainInputs)
  \/ PruneExpiredMessagesMain(MainInputs)
  \/ Tick

SpecMain == Init /\ [][NextMain]_vars

\* The actor whose prune has no gate, called by an admin and by a guest.
CreateRoomOpen(in) == \E c \in in.rooms : Commit(createRoom_open(Store, c), FALSE)

SendMessageOpen(in) ==
  \E r \in in.rooms, c \in in.contents, k \in in.nicknames, u \in in.users :
    Commit(sendMessage_open(Store, now, r, c, k, u, Null, Null, Null, Null), FALSE)

PruneExpiredMessagesOpen(in) ==
  \E caller \in in.callers :
    \E passedOver \in passedOverChoices(prunedLists(messages, now), activeRooms) :
      Commit(pruneExpiredMessages_open(Store, now, caller, passedOver), FALSE)

OpenInputs ==
  [AllInputs EXCEPT !.rooms = {RoomA, RoomPadded, <<>>}, !.nicknames = {<<"k">>, <<" ">>}]

NextOpen ==
  \/ CreateRoomOpen(OpenInputs)
  \/ SendMessageOpen(OpenInputs)
  \/ PruneExpiredMessagesOpen(OpenInputs)
  \/ Tick

SpecOpen == Init /\ [][NextOpen]_vars

\* ------------------------------------- an update call, statement by statement
\* The canister executes one update call at a time; the statements of the call
\* work on the state, and the state is committed when the call returns.

\* the least of a non-empty set of keys, in the order of entries()
leastKey(keys) == CHOOSE r \in keys : \A q \in keys \ {r} : textLess(r, q)

\* the state the statements of the call being executed have reached
Working == [Store EXCEPT !.messages = exec.work, !.nextMessageId = exec.counter]

\* a call starts: `out` is the outcome of the whole call on the state it
\* starts from
BeginExec(op, pc, args, out, todo) ==
  /\ exec.pc = "done"
  /\ out.trap = NoTrap
  /\ Len(created) + Len(out.newIds) <= MaxMsgs
  /\ exec' = [op |-> op, pc |-> pc, args |-> args, t |-> now, pre |-> Store,
              work |-> messages, counter |-> nextMessageId, todo |-> todo,
              ret |-> Null, out |-> out]
  /\ UNCHANGED <<storeVars, now, created, snap, sending, cache>>

BeginSendMessage(in) ==
  \E r \in in.rooms, c \in in.contents, k \in in.nicknames, u \in in.users,
     n \in in.nonces :
    BeginExec("send", "ensure",
              [roomId |-> r, content |-> c, nickname |-> trim(k), userId |-> u, nonce |-> n],
              sendMessage(Store, now, r, c, k, u, Null, Null, Null, Null, n), {})

\* the statements of sendMessage after the validation
sendStep(e) ==
  LET a == e.args
      roomMessages == e.work[a.roomId]
      existing == findByNonce(roomMessages, a.nonce)
  IN CASE e.pc = "ensure" ->
            [e EXCEPT !.work = ensureRoomMessages(@, a.roomId), !.pc = "find"]
       [] e.pc = "find" ->
            IF existing # 0 /\ isReplay(roomMessages[existing], a.userId, a.content)
              THEN [e EXCEPT !.ret = roomMessages[existing].id, !.pc = "commit"]
              ELSE [e EXCEPT !.pc = "nextId"]
       [] e.pc = "nextId" ->
            [e EXCEPT !.ret = nextIdValue(e.counter), !.counter = nextIdCounter(@),
                      !.pc = "add"]
       [] e.pc = "add" ->
            [e EXCEPT !.work = MapAdd(@, a.roomId,
                         appendMessage(roomMessages,
                           newMessage(e.ret, e.t, a.content, a.nickname, a.userId,
                                      Null, Null, Null, Null, a.nonce))),
                      !.pc = "commit"]

BeginEditMessage(in) ==
  \E r \in in.rooms, id \in MessageIds, u \in in.users, c \in in.editContents :
    BeginExec("edit", "store",
              [roomId |-> r, messageId |-> id, userId |-> u, newContent |-> c],
              editMessage(Store, r, id, u, c, "img", Null, Null), {})

\* messages.add(roomId, updatedMessages), when the message is found and owned
editStep(e) ==
  LET a == e.args
  IN IF e.out.ret
       THEN [e EXCEPT !.work = MapAdd(@, a.roomId,
                         editedList(@[a.roomId], a.messageId, a.newContent, "img", Null, Null)),
                      !.ret = TRUE, !.pc = "commit"]
       ELSE [e EXCEPT !.ret = FALSE, !.pc = "commit"]

BeginDeleteMessage(in) ==
  \E r \in in.rooms, id \in MessageIds, u \in in.users :
    BeginExec("delete", "store", [roomId |-> r, messageId |-> id, userId |-> u],
              deleteMessage(Store, r, id, u), {})

\* messages.add(roomId, filteredMessages), when the message is found and owned
deleteStep(e) ==
  LET a == e.args
  IN IF e.out.ret
       THEN [e EXCEPT !.work = MapAdd(@, a.roomId, deletedList(@[a.roomId], a.messageId)),
                      !.ret = TRUE, !.pc = "commit"]
       ELSE [e EXCEPT !.ret = FALSE, !.pc = "commit"]

BeginPruneExpiredMessages(in) ==
  \E caller \in in.callers :
    \E passedOver \in passedOverChoices(prunedLists(messages, now), activeRooms) :
      BeginExec("prune", "loop1", [passedOver |-> passedOver],
                pruneExpiredMessages(Store, now, caller, passedOver), DOMAIN messages)

\* (mutant: the comparison is inverted, the expired messages are the ones kept)
validMsgs_Inverted(msgList, t) ==
  LET keep(msg) == t - msg.timestamp > messageTTL
  IN SelectSeq(msgList, keep)
\* msgList.filter(func(msg) { now - msg.timestamp <= messageTTL })
validMsgs(msgList, t) ==
  LET keep(msg) == t - msg.timestamp <= messageTTL
  IN SelectSeq(msgList, keep)

\* one turn of the first loop of pruneExpiredMessages, then one turn of the
\* second loop, on the entries in the order of their keys
pruneStep(e) ==
  LET r == leastKey(e.todo)
  IN CASE e.pc = "loop1" /\ e.todo # {} ->
            [e EXCEPT !.work = MapAdd(@, r, validMsgs(@[r], e.t)), !.todo = @ \ {r}]
       [] e.pc = "loop1" /\ e.todo = {} ->
            [e EXCEPT !.pc = "loop2",
                      !.todo = orphans(e.work, e.pre.activeRooms) \ e.args.passedOver]
       [] e.pc = "loop2" /\ e.todo # {} ->
            [e EXCEPT !.work = [k \in DOMAIN e.work \ {r} |-> e.work[k]], !.todo = @ \ {r}]
       [] e.pc = "loop2" /\ e.todo = {} ->
            [e EXCEPT !.pc = "commit"]

Running(op) == exec.op = op /\ exec.pc \notin {"done", "commit"}

StepSendMessage ==
  /\ Running("send")
  /\ exec' = sendStep(exec)
  /\ UNCHANGED <<storeVars, now, created, snap, sending, cache>>

StepEditMessage ==
  /\ Running("edit")
  /\ exec' = editStep(exec)
  /\ UNCHANGED <<storeVars, now, created, snap, sending, cache>>

StepDeleteMessage ==
  /\ Running("delete")
  /\ exec' = deleteStep(exec)
  /\ UNCHANGED <<storeVars, now, created, snap, sending, cache>>

StepPruneExpiredMessages ==
  /\ Running("prune")
  /\ exec' = pruneStep(exec)
  /\ UNCHANGED <<storeVars, now, created, snap, sending, cache>>

\* the call returns: its state is committed
CommitExec ==
  /\ exec.pc = "commit"
  /\ messages' = exec.work
  /\ nextMessageId' = exec.counter
  /\ created' = created \o exec.out.newIds
  /\ exec' = NoExec
  /\ UNCHANGED <<activeRooms, chatContexts, now, snap, sending, cache>>

\* Time.now() is the same for every statement of a call
TickBetweenCalls == exec.pc = "done" /\ Tick

\* Update calls executed statement by statement, on two rooms; queries are
\* served at any moment.
AtomicInputs ==
  [AllInputs EXCEPT !.rooms = {RoomA, RoomPadded}, !.contents = {"c1"},
                    !.editContents = {"c2"}, !.users = {"u1"},
                    !.nicknames = {<<"k">>}, !.nonces = {"n1"}, !.callers = {"admin"}]

NextAtomic ==
  \/ BeginSendMessage(AtomicInputs)
  \/ BeginEditMessage(AtomicInputs)
  \/ BeginDeleteMessage(AtomicInputs)
  \/ BeginPruneExpiredMessages(AtomicInputs)
  \/ StepSendMessage
  \/ StepEditMessage
  \/ StepDeleteMessage
  \/ StepPruneExpiredMessages
  \/ CommitExec
  \/ TickBetweenCalls

SpecAtomic == Init /\ [][NextAtomic]_vars

\* ------------------------------------- the query cache and the optimistic send
\* Date.now(), in milliseconds: the clock of the model counts days
DateNow(t) == 86400000 * (t + 1)

\* the optimisticMessage of onMutate
optimisticMessage(t, content, nickname, optimisticId) ==
  [id |-> DateNow(t), content |-> content, timestamp |-> t, nickname |-> nickname,
   replyToId |-> Null, imageUrl |-> Null, videoUrl |-> Null, audioUrl |-> Null,
   isEdited |-> FALSE, reactions |-> <<>>, isOptimistic |-> TRUE,
   optimisticId |-> optimisticId]

\* a value read as a condition: undefined is falsy, an array (empty or not) is
\* truthy
truthy_Never(value) == FALSE
truthy(value) == value.defined

\* setQueryData(key, (old = []) => [...old, optimisticMessage])
appendOptimistic(old, entry) ==
  Defined((IF old.defined THEN old.value ELSE <<>>) \o <<entry>>)

\* query.state.status
queryStatus(c) ==
  IF c.queryError # NoError THEN "error"
  ELSE IF c.data.defined THEN "success"
  ELSE "pending"

\* refetchInterval of useMessages: false (0) in the error state, else 1500 ms
refetchInterval(status) == IF status = "error" THEN 0 ELSE 1500

\* onMutate: the fetch in flight is cancelled, the cache is copied, the
\* optimistic message is appended
OnMutate(in) ==
  \E r \in in.rooms, c \in in.contents, k \in in.nicknames :
    LET optimisticId == cache.sends + 1
    IN /\ cache.pc \in {"idle", "success", "error"}
       /\ cache.inRoom
       /\ cache.sends < MaxSends
       /\ cache' = [cache EXCEPT
                      !.fetch = NoFetch,
                      !.context = [previousMessages |-> cache.data,
                                   optimisticId |-> optimisticId],
                      !.data = appendOptimistic(cache.data,
                                 optimisticMessage(now, c, k, optimisticId)),
                      !.kind = "send", !.variables = NoVariables,
                      !.pc = "mutated", !.sends = optimisticId, !.error = Null,
                      !.refreshed = FALSE, !.polledInFlight = FALSE]
       /\ sending' = [Idle EXCEPT !.roomId = r, !.content = c, !.nickname = k]
       /\ UNCHANGED <<storeVars, now, created, snap, exec>>

\* mutationFn is called with the variables of the mutation
MutationFn ==
  /\ cache.pc = "mutated" /\ cache.kind = "send"
  /\ sending' = validatedSend(sending.roomId, sending.content, sending.nickname)
  /\ cache' = [cache EXCEPT !.pc = "running"]
  /\ UNCHANGED <<storeVars, now, created, snap, exec>>

\* onError: the copy of onMutate is written back when there is one; the
\* mutation ends with the error mutationFn threw
OnError ==
  /\ cache.pc = "running" /\ sending.pc = "failed"
  /\ cache' = [cache EXCEPT
                 !.data = IF truthy(cache.context.previousMessages)
                            THEN cache.context.previousMessages ELSE @,
                 !.pc = "error", !.error = sending.result]
  /\ UNCHANGED <<storeVars, now, created, snap, sending, exec>>

\* onSuccess: invalidateQueries cancels the fetch in flight and fetches anew
OnSuccess ==
  /\ cache.pc = "running" /\ sending.pc = "done"
  /\ cache' = [cache EXCEPT !.pc = "success", !.fetch = NoFetch,
                            !.refetch = refetchInterval(queryStatus(cache)) = 0]
  /\ UNCHANGED <<storeVars, now, created, snap, sending, exec>>

\* retry and retryDelay of useMessages
queryRetries == 2
queryRetry(failureCount, error) ==
  IF "room does not exist" \in error.words THEN FALSE
  ELSE failureCount < queryRetries
queryRetryDelay(attemptIndex) == Min(500 * (2 ^ attemptIndex), 3000)

\* new Error(sanitizeChatError(error)) of a room-not-found error: the message
\* is RoomNotFoundText
RoomNotFoundShown == Error({"room does not exist"}, 0)

\* the catch block of queryFn: what it throws; NoError when it returns the
\* empty array instead
queryFnThrows(error) ==
  IF "room does not exist" \in error.words THEN RoomNotFoundShown
  ELSE IF error.words \cap {"fetch", "network", "Failed to"} # {} THEN error
  ELSE NoError

\* useMessages' queryFn: the canister answers getMessages, and the reply is on
\* its way.  The query fetches while ChatRoom is mounted, every
\* refetchInterval, in the background too (refetchIntervalInBackground), and
\* once when a fetch has been asked for.
PollCall(in) ==
  \E r \in in.rooms :
    /\ ~cache.fetch.flying
    /\ cache.inRoom
    /\ refetchInterval(queryStatus(cache)) > 0 \/ cache.refetch
    /\ cache' = [cache EXCEPT !.fetch = [NoFetch EXCEPT
                                          !.flying = TRUE,
                                          !.reply = getMessages_main(Store, now, r).ret,
                                          !.afterSuccess = cache.pc = "success"],
                              !.refetch = FALSE, !.fetchFailed = FALSE]
    /\ UNCHANGED <<storeVars, now, created, snap, sending, exec>>

\* the data of the query after a fetch: what queryFn returned
queryData_KeepingOptimistic(old, reply) ==
  LET optimistic(e) == "isOptimistic" \in DOMAIN e
  IN Defined(reply \o SelectSeq(old.value, optimistic))
queryData_KeepingOld(old, reply) == IF old.defined THEN old ELSE Defined(reply)
queryData(old, reply) == Defined(reply)

\* the reply arrives: what queryFn returns becomes the data of the query
PollCompleted ==
  /\ cache.fetch.flying /\ cache.fetch.pc = "call"
  /\ cache' = [cache EXCEPT !.data = queryData(cache.data, cache.fetch.reply),
                            !.fetch = NoFetch,
                            !.queryError = NoError,
                            !.refreshed = @ \/ cache.fetch.afterSuccess,
                            !.polledInFlight = cache.pc \in {"mutated", "running"}]
  /\ UNCHANGED <<storeVars, now, created, snap, sending, exec>>

\* the call fails.  For an error queryFn does not rethrow it returns an empty
\* array, which becomes the data; for one it rethrows the data stay, and the
\* fetch is retried after a delay or the query ends in the error state
PollFailedWith(error) ==
  /\ cache.fetch.flying /\ cache.fetch.pc = "call"
  /\ cache' =
       IF queryFnThrows(error) = NoError
         THEN [cache EXCEPT !.data = queryData(cache.data, <<>>),
                            !.fetch = NoFetch, !.polledInFlight = FALSE,
                            !.queryError = NoError, !.fetchFailed = TRUE]
       ELSE IF queryRetry(cache.fetch.failureCount, queryFnThrows(error))
         THEN [cache EXCEPT !.fetch.pc = "wait", !.fetch.reply = <<>>,
                            !.fetchFailed = TRUE,
                            !.fetch.delay = queryRetryDelay(cache.fetch.failureCount),
                            !.fetch.failureCount = @ + 1]
       ELSE [cache EXCEPT !.fetch = NoFetch, !.queryError = queryFnThrows(error),
                          !.fetchFailed = TRUE]
  /\ UNCHANGED <<storeVars, now, created, snap, sending, exec>>

PollFailed(in) == \E error \in in.pollErrors : PollFailedWith(error)

\* the delay of the retry has passed: queryFn is called again
PollRetry(in) ==
  \E r \in in.rooms :
    /\ cache.fetch.flying /\ cache.fetch.pc = "wait"
    /\ cache' = [cache EXCEPT !.fetch.pc = "call",
                              !.fetch.reply = getMessages_main(Store, now, r).ret]
    /\ UNCHANGED <<storeVars, now, created, snap, sending, exec>>

\* One browser in one room: it sends through the optimistic mutation while its
\* poll refreshes the cache, over a network that loses calls and replies.  A
\* poll that fails fails with a reject, which queryFn answers with an empty
\* array; the errors it rethrows are drawn in SpecPoll.
CacheInputs ==
  [AllInputs EXCEPT !.rooms = {RoomA}, !.contents = {"c1"}, !.nicknames = {<<"k">>},
                    !.callers = {"user"},
                    !.pollErrors = {CanisterReject}]

NextCache ==
  \/ CreateRoomMain(CacheInputs)
  \/ OnMutate(CacheInputs)
  \/ MutationFn
  \/ AttemptReplied
  \/ AttemptNotDelivered
  \/ AttemptReplyLost
  \/ RetryAfterDelay
  \/ OnError
  \/ OnSuccess
  \/ PollCall(CacheInputs)
  \/ PollCompleted
  \/ PollFailed(CacheInputs)
  \/ Tick

SpecCache == Init /\ [][NextCache]_vars

\* --------------------------------- optimistic delete, edit and reactions
\* the ids of the messages the room shows that came from the server
ShownIds ==
  {cache.data.value[i].id :
     i \in {j \in 1..Len(cache.data.value) : "isOptimistic" \notin DOMAIN cache.data.value[j]}}

\* (old = []) => old.filter(msg => msg.id !== messageId)
optimisticDelete(old, messageId) ==
  LET keep(msg) == msg.id # messageId
  IN Defined(SelectSeq(old.value, keep))

\* (old = []) => old.map(msg => msg.id === messageId ? {...msg, content, isEdited} : msg)
optimisticEdit(old, messageId, newContent, newImage, newVideo, newAudio) ==
  LET upd(msg) ==
        IF msg.id = messageId
          THEN [msg EXCEPT !.content = newContent, !.isEdited = TRUE,
                           !.imageUrl = IF newImage = Null THEN @ ELSE newImage,
                           !.videoUrl = IF newVideo = Null THEN @ ELSE newVideo,
                           !.audioUrl = IF newAudio = Null THEN @ ELSE newAudio]
          ELSE msg
  IN Defined([i \in 1..Len(old.value) |-> upd(old.value[i])])

\* reactions: [...msg.reactions, { userId, emoji }]
optimisticAddReaction(old, messageId, userId, emoji) ==
  LET upd(msg) ==
        IF msg.id = messageId
          THEN [msg EXCEPT !.reactions = Append(@, [userId |-> userId, emoji |-> emoji])]
          ELSE msg
  IN Defined([i \in 1..Len(old.value) |-> upd(old.value[i])])

\* reactions: msg.reactions.filter(r => !(r.userId === userId && r.emoji === emoji))
optimisticRemoveReaction(old, messageId, userId, emoji) ==
  LET keep(r) == ~(r.userId = userId /\ r.emoji = emoji)
      upd(msg) ==
        IF msg.id = messageId THEN [msg EXCEPT !.reactions = SelectSeq(@, keep)]
        ELSE msg
  IN Defined([i \in 1..Len(old.value) |-> upd(old.value[i])])

\* onMutate of a delete, an edit or a reaction: the fetch in flight is
\* cancelled, the cache is copied, the change is applied to the cache
beginMutation(kind, variables, data) ==
  [cache EXCEPT !.fetch = NoFetch,
                !.context = [previousMessages |-> cache.data, optimisticId |-> 0],
                !.data = data, !.kind = kind, !.variables = variables,
                !.pc = "mutated", !.sends = @ + 1, !.error = Null,
                !.refreshed = FALSE, !.polledInFlight = FALSE]

\* the user acts on a message the room shows
MayMutate ==
  cache.pc \in {"idle", "success", "error"} /\ cache.inRoom /\ cache.sends < MaxSends

OnMutateDelete(in) ==
  \E r \in in.rooms, id \in ShownIds :
    /\ MayMutate
    /\ cache' = beginMutation("delete", [NoVariables EXCEPT !.messageId = id],
                              optimisticDelete(cache.data, id))
    /\ sending' = [Idle EXCEPT !.roomId = trim(r)]
    /\ UNCHANGED <<storeVars, now, created, snap, exec>>

OnMutateEdit(in) ==
  \E r \in in.rooms, id \in ShownIds, c \in in.editContents :
    /\ MayMutate
    /\ cache' = beginMutation("edit", [NoVariables EXCEPT !.messageId = id,
                                                          !.newContent = c],
                              optimisticEdit(cache.data, id, c, Null, Null, Null))
    /\ sending' = [Idle EXCEPT !.roomId = trim(r)]
    /\ UNCHANGED <<storeVars, now, created, snap, exec>>

OnMutateAddReaction(in) ==
  \E r \in in.rooms, id \in ShownIds, e \in in.emojis :
    /\ MayMutate
    /\ cache' = beginMutation("addReaction", [NoVariables EXCEPT !.messageId = id,
                                                                 !.emoji = e],
                              optimisticAddReaction(cache.data, id, ClientUserId, e))
    /\ sending' = [Idle EXCEPT !.roomId = trim(r)]
    /\ UNCHANGED <<storeVars, now, created, snap, exec>>

OnMutateRemoveReaction(in) ==
  \E r \in in.rooms, id \in ShownIds, e \in in.emojis :
    /\ MayMutate
    /\ cache' = beginMutation("removeReaction", [NoVariables EXCEPT !.messageId = id,
                                                                    !.emoji = e],
                              optimisticRemoveReaction(cache.data, id, ClientUserId, e))
    /\ sending' = [Idle EXCEPT !.roomId = trim(r)]
    /\ UNCHANGED <<storeVars, now, created, snap, exec>>

\* the principal of the browser's actor
ClientCaller == "user"

\* the call mutationFn makes to the actor
mutationCall(kind, roomId, v) ==
  CASE kind = "delete" ->
         deleteMessage_main(Store, ClientCaller, roomId, v.messageId, ClientUserId)
    [] kind = "edit" ->
         editMessage_main(Store, ClientCaller, roomId, v.messageId, ClientUserId,
                          v.newContent, Null, Null, Null)
    [] kind = "addReaction" ->
         addReaction_main(Store, roomId, v.messageId, ClientUserId, v.emoji)
    [] kind = "removeReaction" ->
         removeReaction_main(Store, roomId, v.messageId, ClientUserId, v.emoji)

\* if (!result) throw new Error('Failed to ...')
falseResult(kind) ==
  CASE kind = "delete" -> Error({"failed to delete"}, 0)
    [] kind = "edit" -> Error({"failed to edit"}, 0)
    [] kind = "addReaction" -> Error({"failed to add reaction"}, 0)
    [] kind = "removeReaction" -> Error({"failed to remove reaction"}, 0)

\* the reject of a call that trapped
rejectOf(kind) ==
  CASE kind = "delete" -> Error({"unauthorized: only users can delete messages"}, 5)
    [] kind = "edit" -> Error({"unauthorized: only users can edit messages"}, 5)
    [] OTHER -> Error({}, 5)

\* mutationFn after the reply: it returns the result, or throws the sanitized
\* text of a trap or of a false result
afterReply(kind, outcome) ==
  IF outcome.trap # NoTrap
    THEN [sending EXCEPT !.pc = "failed", !.result = sanitizeChatError(rejectOf(kind))]
  ELSE IF outcome.ret = FALSE
    THEN [sending EXCEPT !.pc = "failed", !.result = sanitizeChatError(falseResult(kind))]
  ELSE [sending EXCEPT !.pc = "done", !.result = "true"]

IsEditing == cache.pc = "mutated" /\ cache.kind \in {"delete", "edit", "addReaction",
                                                     "removeReaction"}

\* the canister executes the call and answers
MutationReplied ==
  LET outcome == mutationCall(cache.kind, sending.roomId, cache.variables)
  IN /\ IsEditing
     /\ Apply(outcome)
     /\ sending' = afterReply(cache.kind, outcome)
     /\ cache' = [cache EXCEPT !.pc = "running"]
     /\ UNCHANGED <<now, snap, exec>>

\* the call never reaches the canister
MutationNotDelivered ==
  \E error \in NetworkErrors :
    /\ IsEditing
    /\ sending' = [sending EXCEPT !.pc = "failed", !.result = sanitizeChatError(error)]
    /\ cache' = [cache EXCEPT !.pc = "running"]
    /\ UNCHANGED <<storeVars, now, created, snap, exec>>

\* the canister executes the call, and its reply is lost
MutationReplyLost ==
  \E error \in NetworkErrors :
    LET outcome == mutationCall(cache.kind, sending.roomId, cache.variables)
    IN /\ IsEditing
       /\ Apply(outcome)
       /\ sending' = [sending EXCEPT !.pc = "failed", !.result = sanitizeChatError(error)]
       /\ cache' = [cache EXCEPT !.pc = "running"]
       /\ UNCHANGED <<now, snap, exec>>

\* One browser in one room with another participant: it sends, deletes, edits
\* and reacts through the optimistic mutations while its poll refreshes the
\* cache.
OptimisticInputs ==
  [AllInputs EXCEPT !.rooms = {RoomA}, !.contents = {"c1"}, !.editContents = {"c2"},
                    !.nicknames = {<<"k">>}, !.users = {"u2"}, !.emojis = {"e1"},
                    !.callers = {"user"}, !.pollErrors = {CanisterReject}]

NextOptimistic ==
  \/ CreateRoomMain(OptimisticInputs)
  \/ SendMessageMain(OptimisticInputs)
  \/ OnMutate(OptimisticInputs)
  \/ MutationFn
  \/ AttemptReplied
  \/ AttemptNotDelivered
  \/ RetryAfterDelay
  \/ OnMutateDelete(OptimisticInputs)
  \/ OnMutateEdit(OptimisticInputs)
  \/ OnMutateAddReaction(OptimisticInputs)
  \/ OnMutateRemoveReaction(OptimisticInputs)
  \/ MutationReplied
  \/ MutationNotDelivered
  \/ MutationReplyLost
  \/ OnError
  \/ OnSuccess
  \/ PollCall(OptimisticInputs)
  \/ PollCompleted
  \/ PollFailed(OptimisticInputs)

SpecOptimistic == Init /\ [][NextOptimistic]_vars

\* The browser alone in its room, sending and editing, when its polls keep
\* succeeding: useMessages fetches every refetchInterval as long as no fetch
\* has failed, and every fetch is answered.  Messages expire meanwhile.
NextReconcile ==
  \/ CreateRoomMain(OptimisticInputs)
  \/ OnMutate(OptimisticInputs)
  \/ MutationFn
  \/ AttemptReplied
  \/ AttemptNotDelivered
  \/ RetryAfterDelay
  \/ OnMutateEdit(OptimisticInputs)
  \/ MutationReplied
  \/ MutationNotDelivered
  \/ MutationReplyLost
  \/ OnError
  \/ OnSuccess
  \/ PollCall(OptimisticInputs)
  \/ PollCompleted
  \/ Tick

SpecReconcile ==
  /\ Init /\ [][NextReconcile]_vars
  /\ WF_vars(PollCall(OptimisticInputs))
  /\ WF_vars(PollCompleted)

\* ------------------------------------------ the view: visibility and leaving
\* handleVisibilityChange: the tab is hidden, or shown again
VisibilityChange ==
  /\ cache' = [cache EXCEPT !.visible = ~@]
  /\ UNCHANGED <<storeVars, now, created, snap, sending, exec>>

\* handleLeaveRoom: setCurrentRoom(null) unmounts ChatRoom
LeaveRoom ==
  /\ cache.inRoom
  /\ cache' = [cache EXCEPT !.inRoom = FALSE]
  /\ UNCHANGED <<storeVars, now, created, snap, sending, exec>>

\* handleJoinRoom: setCurrentRoom(room) mounts ChatRoom
JoinRoom ==
  /\ ~cache.inRoom
  /\ cache' = [cache EXCEPT !.inRoom = TRUE,
                            !.refetch = refetchInterval(queryStatus(cache)) = 0]
  /\ UNCHANGED <<storeVars, now, created, snap, sending, exec>>

\* The browser whose user hides the tab, leaves the room and comes back, while
\* polls and a send with its retries are under way.
NextView ==
  \/ CreateRoomMain(CacheInputs)
  \/ OnMutate(CacheInputs)
  \/ MutationFn
  \/ AttemptReplied
  \/ AttemptNotDelivered
  \/ RetryAfterDelay
  \/ OnError
  \/ OnSuccess
  \/ PollCall(CacheInputs)
  \/ PollCompleted
  \/ PollFailed(CacheInputs)
  \/ VisibilityChange
  \/ LeaveRoom
  \/ JoinRoom

SpecView == Init /\ [][NextView]_vars

\* ------------------------------------------------------- notions of claims
Range(f) == {f[i] : i \in DOMAIN f}

\* every message stored, whatever its room
StoredIn(m) == UNION {Range(m[k]) : k \in DOMAIN m}

\* the messages of room r of the map m that carry the nonce n
WithNonce(m, r, n) ==
  IF r \in DOMAIN m THEN {i \in 1..Len(m[r]) : m[r][i].nonce = n} ELSE {}

ValidNick == <<"k">>

\* C1: two sendMessage calls with the same (roomCode, nonce, ownerId, content)
\* return the same messageId, and afterwards the store holds exactly one
\* message for that (roomCode, nonce).
C1_IdempotentSend ==
  \A r \in RoomCodes, c \in Contents, u \in Users, n \in Nonces :
    LET first == sendMessage(Store, now, r, c, ValidNick, u, Null, Null, Null, Null, n)
        second == sendMessage(first.state, now, r, c, ValidNick, u, Null, Null, Null, Null, n)
    IN first.trap = NoTrap =>
         /\ second.trap = NoTrap
         /\ second.ret = first.ret
         /\ Cardinality(WithNonce(second.state.messages, r, n)) = 1

\* C3: each (roomCode, nonce) pair is carried by at most one stored message.
C3_NonceUnique ==
  \A r \in DOMAIN messages, n \in Nonces : Cardinality(WithNonce(messages, r, n)) <= 1

\* C10: sendMessage to a room code that was never created fails, stores no
\* message and does not advance the id counter.
C10_SendNeedsRoom ==
  \A r \in RoomCodes, c \in Contents, u \in Users, n \in Nonces :
    LET o == sendMessage(Store, now, r, c, ValidNick, u, Null, Null, Null, Null, n)
    IN (r \notin activeRooms /\ trim(r) \notin activeRooms) =>
         /\ o.trap # NoTrap
         /\ o.state = Store

\* ids of a sequence of messages, in its order
IdsOf(msgs) == [i \in 1..Len(msgs) |-> msgs[i].id]

StrictlyAscending(ids) == \A i, j \in 1..Len(ids) : i < j => ids[i] < ids[j]

\* C5: no message with now - createdAt > TTL is returned by getMessages or
\* fetchMessagesAfterId, pruned or not, and every stored message with
\* now - createdAt <= TTL is returned by getMessages of its room.
C5_TTLVisibility ==
  /\ \A r \in RoomCodes :
       LET g == getMessages(Store, now, r)
       IN g.trap = NoTrap => \A v \in Range(g.ret) : now - v.timestamp <= messageTTL
  /\ \A r \in RoomCodes, lastId \in MessageIds :
       LET f == fetchMessagesAfterId(Store, now, r, lastId)
       IN f.trap = NoTrap => \A v \in Range(f.ret) : now - v.timestamp <= messageTTL
  /\ \A r \in DOMAIN messages :
       \A m \in Range(messages[r]) :
         now - m.timestamp <= messageTTL =>
           /\ getMessages(Store, now, r).trap = NoTrap
           /\ \E v \in Range(getMessages(Store, now, r).ret) : v.id = m.id

\* C5's case: a room holds an expired message that has not been pruned next
\* to one that is still alive, and getMessages returns the live one only.
C5_Witness ==
  \E r \in DOMAIN messages :
    /\ \E m \in Range(messages[r]) : now - m.timestamp > messageTTL
    /\ \E m \in Range(messages[r]) : now - m.timestamp <= messageTTL
    /\ Len(getMessages(Store, now, r).ret) = 1

\* C6: every newly created message gets an id strictly greater than the id of
\* every message created before it, in any room; no two messages share an id,
\* and an id is not reused after its message is deleted or pruned.
C6_IdsIncreasing ==
  /\ StrictlyAscending(created)
  /\ \A m \in StoredIn(messages) : m.id \in Range(created)
  /\ \A r1, r2 \in DOMAIN messages :
       \A i \in 1..Len(messages[r1]), j \in 1..Len(messages[r2]) :
         messages[r1][i].id = messages[r2][j].id => r1 = r2 /\ i = j

\* C6's case: a message was created after an earlier one had been removed.
C6_Witness ==
  /\ Len(created) = 2
  /\ \E r \in DOMAIN messages :
       /\ Len(messages[r]) = 1
       /\ messages[r][1].id = created[2]
  /\ Cardinality(StoredIn(messages)) = 1

\* position of an id in the record of creations
CreatedAt(id) == CHOOSE i \in 1..Len(created) : created[i] = id

\* C7: after any sequence of send, edit, delete, reaction and prune
\* operations, getMessages(room) returns its messages with strictly ascending
\* ids, in the order in which they were sent.
C7_Ordering ==
  \A r \in RoomCodes :
    LET g == getMessages(Store, now, r)
    IN g.trap = NoTrap =>
         /\ StrictlyAscending(IdsOf(g.ret))
         /\ \A i, j \in 1..Len(g.ret) :
              i < j => CreatedAt(g.ret[i].id) < CreatedAt(g.ret[j].id)

\* C7's case: getMessages returns two messages of which the first has been
\* edited and reacted to.
C7_Witness ==
  \E r \in DOMAIN messages :
    LET g == getMessages(Store, now, r)
    IN /\ Len(g.ret) = 2
       /\ g.ret[1].isEdited
       /\ g.ret[1].reactions # <<>>

\* C9: each message's reactions contain at most one entry per (userId, emoji).
C9_ReactionSet ==
  \A m \in StoredIn(messages) :
    \A i, j \in 1..Len(m.reactions) : m.reactions[i] = m.reactions[j] => i = j

\* C4: editMessage and deleteMessage with an ownerId different from the
\* message's owner return false and leave the store unchanged; with the
\* matching ownerId they return true and the edit (new content, isEdited) or
\* the removal is visible in the next getMessages.
C4_Ownership ==
  \A r \in DOMAIN messages :
    \A m \in Range(messages[r]), u \in Users, c \in Contents :
      LET e == editMessage(Store, r, m.id, u, c, "img", Null, Null)
          d == deleteMessage(Store, r, m.id, u)
      IN IF u # m.owner
           THEN /\ e.trap = NoTrap /\ e.ret = FALSE /\ e.state = Store
                /\ d.trap = NoTrap /\ d.ret = FALSE /\ d.state = Store
           ELSE /\ e.trap = NoTrap /\ e.ret = TRUE
                /\ \E v \in Range(getMessages(e.state, now, r).ret) :
                     v.id = m.id /\ v.content = c /\ v.isEdited
                /\ d.trap = NoTrap /\ d.ret = TRUE
                /\ \A v \in Range(getMessages(d.state, now, r).ret) : v.id # m.id

\* the greatest id of a non-empty getMessages result
LastIdOf(view) == view[Len(view)].id

\* the copy taken at T0, restricted to what has not expired, followed by what
\* fetchMessagesAfterId returns now for the last id of the copy
IncrementalView ==
  LET alive(v) == now - v.timestamp <= messageTTL
  IN SelectSeq(snap.view, alive)
       \o fetchMessagesAfterId(Store, now, snap.room, LastIdOf(snap.view)).ret

\* C8: for any operations executed between T0 and now, the copy of T0 joined
\* with \* fetchMessagesAfterId(room, lastIdAtT0) equals getMessages(room) now.
C8_FetchAnyOperations ==
  (snap.taken /\ snap.view # <<>>) =>
     IncrementalView = getMessages(Store, now, snap.room).ret

\* C8, for the operations that leave the messages of T0 as they were: when
\* since T0 messages were only sent, expired and pruned (none edited, deleted
\* or reacted to), the copy of T0 joined with fetchMessagesAfterId(room,
\* lastIdAtT0) equals getMessages(room) now.
C8_FetchConsistency ==
  (snap.taken /\ snap.view # <<>> /\ ~snap.mutated) =>
     IncrementalView = getMessages(Store, now, snap.room).ret

\* C8's case: since T0 a message of the copy has expired and a new one was
\* sent, which the incremental fetch returns.
C8_Witness ==
  /\ snap.taken /\ ~snap.mutated
  /\ \E v \in Range(snap.view) : now - v.timestamp > messageTTL
  /\ fetchMessagesAfterId(Store, now, snap.room, LastIdOf(snap.view)).ret # <<>>

\* C2: for one user send issued through the client's retry layer, whichever
\* attempts fail transiently (an attempt applied whose reply was lost
\* included), the store ends up holding at most one message for that send.
C2_RetrySafe == Len(sending.applied) <= 1

\* the room codes validateJoinCode accepts
ValidRoomCodes == {r \in RoomCodes : validateJoinCode(r) = NoTrap}

\* the message ids stored in room r
IdsStoredIn(r) ==
  IF r \in DOMAIN messages THEN {messages[r][i].id : i \in 1..Len(messages[r])} ELSE {}

\* C11: editMessage, deleteMessage, addReaction and removeReaction aimed at a
\* room that has no messages or at a message id that is not stored in that
\* room return false and change nothing; getMessages and fetchMessagesAfterId
\* for a room without messages return the empty sequence.
C11_NotFoundIsFalse ==
  \A r \in ValidRoomCodes, id \in MessageIds, u \in Users, e \in Emojis :
    /\ id \notin IdsStoredIn(r) =>
         /\ editMessage(Store, r, id, u, "c1", Null, Null, Null) = Return(Store, FALSE)
         /\ deleteMessage(Store, r, id, u) = Return(Store, FALSE)
         /\ addReaction(Store, r, id, u, e) = Return(Store, FALSE)
         /\ removeReaction(Store, r, id, u, e) = Return(Store, FALSE)
    /\ IdsStoredIn(r) = {} =>
         /\ getMessages(Store, now, r) = Return(Store, <<>>)
         /\ fetchMessagesAfterId(Store, now, r, id) = Return(Store, <<>>)

\* C12: sendMessage with a nickname whose trimmed length is 0 or greater than
\* 20, and createRoom with a code whose trimmed length is 0 or greater than
\* 30, are rejected and leave the room registry, every message list and the id
\* counter unchanged.
C12_ValidationNoSideEffect ==
  /\ \A r \in RoomCodes, k \in Nicknames, c \in Contents, u \in Users, n \in Nonces :
       (Len(trim(k)) = 0 \/ Len(trim(k)) > MaxNicknameLen) =>
         LET o == sendMessage(Store, now, r, c, k, u, Null, Null, Null, Null, n)
         IN o.trap # NoTrap /\ o.state = Store
  /\ \A code \in RoomCodes :
       (Len(trim(code)) = 0 \/ Len(trim(code)) > MaxJoinCodeLen) =>
         /\ createRoom(Store, code).trap # NoTrap
         /\ createRoom(Store, code).state = Store
         /\ \A caller \in UserCallers :
              LET o == createRoom_main(Store, caller, code)
              IN o.state = Store /\ (o.trap = NoTrap => o.ret # trim(code))

\* the text of the trap of createRoom for a code that is taken
AlreadyExists == "Room already exists"

\* createRoom twice in a row with the same code, on the store of part_001
FirstWriterWins ==
  \A code \in ValidRoomCodes :
    LET first == createRoom(Store, code)
        second == createRoom(first.state, code)
    IN IF code \in activeRooms
         THEN first.trap = AlreadyExists /\ first.state = Store
         ELSE /\ first.trap = NoTrap /\ first.ret = code
              /\ second.trap = AlreadyExists /\ second.state = first.state

\* the same on the store of main.mo, the two calls made by any two callers
FirstWriterWins_main ==
  \A code \in ValidRoomCodes, c1 \in MainCallers, c2 \in MainCallers :
    LET first == createRoom_main(Store, c1, code)
        second == createRoom_main(first.state, c2, code)
    IN IF trim(code) \in chatContexts
         THEN first.trap = NoTrap /\ first.ret = AlreadyExistsText /\ first.state = Store
         ELSE /\ first.trap = NoTrap /\ first.ret = trim(code)
              /\ second.trap = NoTrap /\ second.ret = AlreadyExistsText
              /\ second.state = first.state

\* C13: for any interleaving of createRoom calls with the same code, exactly
\* one call succeeds and returns the code; every other call gets AlreadyExists
\* and leaves the registry unchanged.  (The first call on a free code succeeds,
\* a call on a taken code gets AlreadyExists, and no step frees a code.)
C13_FirstWriterWins ==
  /\ [](FirstWriterWins /\ FirstWriterWins_main)
  /\ [][activeRooms \subseteq activeRooms' /\ chatContexts \subseteq chatContexts']_vars

\* C14: once createRoom(code) has succeeded, roomExists(code) returns true in
\* every later state, whatever messages are afterwards sent, deleted, expired
\* or pruned.  (activeRooms holds the codes whose createRoom succeeded;
\* roomExists is a query and has no state to change.)
C14_RoomPersistence ==
  /\ [](\A code \in activeRooms : roomExists(Store, code))
  /\ [][activeRooms \subseteq activeRooms']_vars

\* what a prune by an admin can leave, in the current state
PruneOutcomes ==
  {pruneExpiredMessages(Store, now, "admin", p) :
     p \in passedOverChoices(prunedLists(messages, now), activeRooms)}

\* C15: pruneExpiredMessages removes exactly the stored messages with
\* now - createdAt > TTL (in every room), keeps every other message with all
\* fields and its relative order unchanged, and then removes exactly the room
\* message lists that are empty and not flagged active; the results of
\* getMessages and fetchMessagesAfterId at that time are the same before and
\* after the prune.
C15_PruneExact ==
  \A o \in PruneOutcomes :
    LET after == o.state.messages
        alive(m) == now - m.timestamp <= messageTTL
        kept(r) == SelectSeq(messages[r], alive)
    IN /\ o.trap = NoTrap
       /\ DOMAIN after = {r \in DOMAIN messages : ~(kept(r) = <<>> /\ r \notin activeRooms)}
       /\ \A r \in DOMAIN after : after[r] = kept(r)
       /\ o.state.activeRooms = activeRooms
       /\ o.state.nextMessageId = nextMessageId
       /\ \A r \in RoomCodes, lastId \in MessageIds :
            /\ getMessages(o.state, now, r).ret = getMessages(Store, now, r).ret
            /\ fetchMessagesAfterId(o.state, now, r, lastId).ret
                 = fetchMessagesAfterId(Store, now, r, lastId).ret

\* what getMessages and fetchMessagesAfterId return for room r from the state s
ReadsOf(s, r) ==
  [got |-> getMessages(s, now, r).ret,
   fetched |-> [lastId \in MessageIds |-> fetchMessagesAfterId(s, now, r, lastId).ret]]

PruneRejected(o) == o.trap # NoTrap /\ o.state = Store

\* C17: pruneExpiredMessages invoked by a caller that the authorization
\* collaborator does not accept as admin is rejected and removes no message
\* and no room -- in each of the three actors that have a prune.
C17_PruneAdminGated ==
  \A caller \in Callers \cup MainCallers :
    /\ ~hasAdminPermission(caller) =>
         \A p \in passedOverChoices(prunedLists(messages, now), activeRooms) :
           /\ PruneRejected(pruneExpiredMessages(Store, now, caller, p))
           /\ PruneRejected(pruneExpiredMessages_open(Store, now, caller, p))
    /\ ~isAdmin(caller) =>
         \A p \in passedOverChoices(prunedLists_main(messages, chatContexts, now),
                                    activeRooms) :
           PruneRejected(pruneExpiredMessages_main(Store, now, caller, p))

\* C18: createRoom, sendMessage, getMessages, editMessage, deleteMessage,
\* addReaction and removeReaction return the same result and make the same
\* state change for every caller, whatever role the authorization collaborator
\* gives that caller.  (sendMessage, getMessages, addReaction and
\* removeReaction never read their caller: their outcome is a function of
\* their arguments alone; the three others are compared caller by caller.)
C18_OnlyPruneGated ==
  \A c1 \in MainCallers, c2 \in MainCallers :
    /\ \A code \in RoomCodes :
         createRoom_main(Store, c1, code) = createRoom_main(Store, c2, code)
    /\ \A r \in DOMAIN messages, id \in MessageIds, u \in Users, c \in Contents :
         /\ editMessage_main(Store, c1, r, id, u, c, Null, Null, Null)
              = editMessage_main(Store, c2, r, id, u, c, Null, Null, Null)
         /\ deleteMessage_main(Store, c1, r, id, u) = deleteMessage_main(Store, c2, r, id, u)

\* the entries the cache of the room holds
CacheEntries == Range(cache.data.value)

\* the provisional entries of the send in hand that the cache holds
ProvisionalOfSend ==
  {e \in CacheEntries : /\ "isOptimistic" \in DOMAIN e
                        /\ e.optimisticId = cache.context.optimisticId}

\* the texts sanitizeChatError gives for the errors of a call
SanitizedTexts == {NetworkErrorText, DefaultErrorText, NicknameTooLongText, RoomNotFoundText}

\* C19: once an optimistic send has failed terminally, the provisional entry of
\* that send is not in the cache of the room, whatever the cache held when the
\* send began (no data at all included), and the error the mutation ends with
\* is a sanitized text.
C19_FailedSendRolledBack ==
  cache.pc = "error" => /\ ProvisionalOfSend = {}
                        /\ cache.error \in SanitizedTexts

\* the messages of the store that the send in hand created, as the cache holds
\* them
ConfirmedOfSend ==
  {e \in CacheEntries : /\ "isOptimistic" \notin DOMAIN e
                        /\ e.id \in Range(sending.applied)}

\* the send in hand has succeeded and a poll called after that has completed
Refreshed == cache.pc = "success" /\ cache.refreshed

RollbackStep == cache.pc = "running" /\ cache'.pc = "error"

\* C21: the optimistic path never overwrites a server-confirmed entry; in
\* particular, when the data of the cache are what a poll delivered while the
\* mutation was in flight, the rollback of the failed mutation keeps every one
\* of these entries.
C21_RollbackKeepsPolled ==
  [][RollbackStep /\ cache.polledInFlight
       => Range(cache.data.value) \subseteq Range(cache'.data.value)]_vars

\* the kinds of mutation that change a message the room shows
EditKinds == {"delete", "edit", "addReaction", "removeReaction"}

\* what onMutate of the mutation in hand made of the copy it took
OptimisticData ==
  LET v == cache.variables
      old == cache.context.previousMessages
  IN CASE cache.kind = "delete" -> optimisticDelete(old, v.messageId)
       [] cache.kind = "edit" -> optimisticEdit(old, v.messageId, v.newContent, Null, Null, Null)
       [] cache.kind = "addReaction" ->
            optimisticAddReaction(old, v.messageId, ClientUserId, v.emoji)
       [] cache.kind = "removeReaction" ->
            optimisticRemoveReaction(old, v.messageId, ClientUserId, v.emoji)

\* C22: when the server call of an optimistic edit, delete, addReaction or
\* removeReaction raises an error or returns false, the step that ends the
\* mutation leaves in the cache of the room exactly the copy taken immediately
\* before the optimistic change was applied.
C22_RollbackRestoresSnapshot ==
  [][RollbackStep /\ cache.kind \in EditKinds
       => cache'.data = cache.context.previousMessages]_vars

\* C22's case: a delete whose call returned false has ended, the cache holds
\* the copy again, and the optimistic change had removed a message from it.
C22_Witness ==
  /\ cache.pc = "error" /\ cache.kind = "delete"
  /\ cache.error = FailedToDeleteText
  /\ OptimisticData # cache.context.previousMessages
  /\ cache.data = cache.context.previousMessages

\* the cache of the room is what getMessages returns from the store, and none
\* of its entries is optimistic
Reconciled ==
  /\ \E r \in OptimisticInputs.rooms :
       cache.data = Defined(getMessages_main(Store, now, r).ret)
  /\ \A e \in CacheEntries : "isOptimistic" \notin DOMAIN e

\* C23: after an optimistic mutation has succeeded, provided polls keep
\* succeeding and no further mutation is issued, the cache of the room
\* eventually equals what getMessages(room) returns from the store and holds
\* no optimistic entry.
C23_EventualReconciliation ==
  (cache.pc = "success") ~> (Reconciled \/ cache.pc # "success")

\* C23's case: a send has succeeded, a fetch called after that has completed,
\* and the cache holds the stored messages of the room, the sent one included.
C23_Witness ==
  /\ cache.pc = "success" /\ cache.kind = "send" /\ cache.refreshed
  /\ Reconciled /\ ConfirmedOfSend # {}

\* retryWithBackoff is running: an invocation is out, or a backoff is waited for
Retrying == sending.pc \in {"attempt", "backoff"}

\* C24: for any sequence of outcomes, retryWithBackoff invokes the operation
\* at most maxAttempts times, makes no further attempt after a success, and
\* always terminates, returning the result of the first success or raising
\* the last error.
C24_BoundedRetry ==
  /\ [](sending.calls <= maxAttempts)
  /\ [][sending.pc = "done" => sending'.calls \in {sending.calls, 0}]_vars
  /\ [](sending.pc = "failed" /\ sending.calls > 0
          => sending.result = sanitizeChatError(sending.lastError))
  /\ [][Retrying /\ sending'.pc = "done"
          => sending'.result = AttemptCall.ret]_vars
  /\ (Retrying ~> sending.pc \in {"done", "failed"})

\* C24's case: the third invocation has failed with a transient error, and the
\* send has ended with that error.
C24_Witness ==
  /\ sending.pc = "failed" /\ sending.calls = maxAttempts
  /\ isTransientError(sending.lastError)

\* the classes of the specification: permanent errors are those of
\* validation, ownership and not-found, and a reject that is not the
\* system's; transient errors are those of the network and of the service
PermanentErrors == TrapErrors \cup {CanisterReject}
TransientErrors == NetworkErrors

\* the invocation of this step has failed with error e
FailsWith(e) == /\ sending.pc = "attempt" /\ sending'.calls = sending.calls + 1
                /\ sending'.pc # "done" /\ sending'.lastError = e

\* C25: an error classified permanent (validation, ownership, not-found) is
\* surfaced by the invocation that met it and is never retried; an error
\* classified transient is retried, and is surfaced to the caller only once
\* the retry budget is exhausted.
C25_FailureClassification ==
  /\ [][\A e \in PermanentErrors : FailsWith(e) => sending'.pc = "failed"]_vars
  /\ [][\A e \in TransientErrors :
          FailsWith(e) => IF sending'.calls = maxAttempts THEN sending'.pc = "failed"
                          ELSE sending'.pc = "backoff"]_vars
  /\ [](sending.pc = "backoff" => sending.lastError \in TransientErrors)

\* C25's case: the first invocation was rejected for a room that does not
\* exist, and the send has ended with that error after this one invocation.
C25_Witness ==
  /\ sending.pc = "failed" /\ sending.calls = 1
  /\ sending.lastError = RoomNotFound

\* this step issues a poll: the queryFn of useMessages calls the actor
PollIssued == ~cache.fetch.flying /\ cache'.fetch.flying

\* this step issues a retry attempt of the pending send: the backoff is over
\* and fn() is invoked again
AttemptIssued == sending.pc = "backoff" /\ sending'.pc = "attempt"

\* C26: while the view is not visible no poll is issued for the room; polling
\* resumes once the view is visible again.
C26_NoPollWhenHidden == [][PollIssued => cache.visible]_vars

\* C27: after the user has left a room, no poll and no retry attempt of a
\* pending mutation is issued for that room any more.
C27_LeavingCancels == [][~cache.inRoom => ~PollIssued /\ ~AttemptIssued]_vars

\* the values a logged record carries, by their type: the texts of its context
\* and its user message
LoggedNames == {sending.logged.context.roomId, sending.logged.context.nickname}
LoggedTexts == {sending.logged.sanitizedMessage} \cup sending.logged.rawError.words

\* C28: a diagnostic record logged for a failed send carries neither the
\* nickname nor the content of the message.
C28_NoSensitiveDiagnostics ==
  sending.logged.emitted =>
    /\ sending.nickname \notin LoggedNames
    /\ sending.content \notin LoggedTexts

\* the first send of a fresh store to the created room r, and the same call
\* made again on the store it leaves
firstSend(r, c, k, u, n) ==
  sendMessage(Store, now, r, c, k, u, Null, Null, Null, Null, n)
resend(r, c, k, u, n) ==
  sendMessage(firstSend(r, c, k, u, n).state, now, r, c, k, u, Null, Null, Null, Null, n)

\* C30: in a store that has handed out no id yet, the first message sent to a
\* created room receives id 1, and sending the same payload again with the
\* same nonce returns 1 again.
C30_IdsStartAtOne ==
  \A r \in StoreInputs.rooms, c \in StoreInputs.contents, k \in StoreInputs.nicknames,
     u \in StoreInputs.users, n \in StoreInputs.nonces :
    (created = <<>> /\ r \in activeRooms /\ firstSend(r, c, k, u, n).newIds # <<>>) =>
      /\ firstSend(r, c, k, u, n).ret = 1
      /\ resend(r, c, k, u, n).ret = 1

\* Reactions of two participants with two emojis, added to and removed from
\* the messages of one room.
ReactInputs ==
  [AllInputs EXCEPT !.rooms = {RoomA}, !.contents = {"c1"}, !.nicknames = {<<"k">>},
                    !.users = {"u1"}, !.reactors = {"u1", "u2"},
                    !.emojis = {"e1", "e2"}]

NextReact ==
  \/ CreateRoom(ReactInputs)
  \/ SendMessage(ReactInputs)
  \/ AddReaction(ReactInputs)
  \/ RemoveReaction(ReactInputs)

SpecReact == Init /\ [][NextReact]_vars

\* the reactions other than the pair, in their order
Others(reactions, pair) ==
  LET other(reaction) == reaction # pair
  IN SelectSeq(reactions, other)

\* the message with this id in the room's list, if the store has one
Targets(r, i) ==
  IF r \in DOMAIN messages THEN {msg \in Range(messages[r]) : msg.id = i} ELSE {}

\* C29: removeReaction(room, msg, user, emoji) on a well-formed room code
\* raises no error; it leaves the message without the (user, emoji) pair and
\* with its other reactions and fields as they were, and every other message
\* and the rest of the store unchanged; when the pair is absent it changes
\* nothing; and applying it a second time changes nothing more.
C29_RemoveReaction ==
  \A r \in {RoomA, RoomPadded}, i \in MessageIds, u \in ReactInputs.reactors,
     e \in ReactInputs.emojis :
    LET pair == [userId |-> u, emoji |-> e]
        once == removeReaction(Store, r, i, u, e)
        twice == removeReaction(once.state, r, i, u, e)
        after == once.state.messages
    IN /\ once.trap = NoTrap
       /\ once.state.activeRooms = activeRooms
       /\ once.state.nextMessageId = nextMessageId
       /\ once.state.chatContexts = chatContexts
       /\ DOMAIN after = DOMAIN messages
       /\ \A k \in DOMAIN messages :
            /\ Len(after[k]) = Len(messages[k])
            /\ \A j \in 1..Len(messages[k]) :
                 IF k = r /\ messages[k][j].id = i
                   THEN /\ pair \notin Range(after[k][j].reactions)
                        /\ after[k][j].reactions = Others(messages[k][j].reactions, pair)
                        /\ after[k][j] = [messages[k][j] EXCEPT
                                            !.reactions = after[k][j].reactions]
                 ELSE after[k][j] = messages[k][j]
       /\ (\A msg \in Targets(r, i) : pair \notin Range(msg.reactions)) =>
            once.state = Store
       /\ twice.trap = NoTrap
       /\ twice.state = once.state

\* C29's case: the room holds two messages; one carries the pair (u1, e1)
\* twice, the other carries a reaction of the same participant with another
\* emoji and a reaction of another participant with the same emoji. Removing
\* (u1, e1) from either is the removal of a present and of an absent pair.
C29_Witness ==
  /\ RoomA \in DOMAIN messages
  /\ Len(messages[RoomA]) = 2
  /\ messages[RoomA][1].reactions = <<[userId |-> "u1", emoji |-> "e2"],
                                      [userId |-> "u2", emoji |-> "e1"]>>
  /\ messages[RoomA][2].reactions = <<[userId |-> "u1", emoji |-> "e1"],
                                      [userId |-> "u1", emoji |-> "e1"]>>

\* the mutation in hand has applied its optimistic update and has not settled
InFlight == cache.pc \in {"mutated", "running"}

\* C31: a mutation cancels the poll in flight before it applies its
\* optimistic update, and between that update and the settling of the
\* mutation no poll result is written to the cache of the room: the
\* optimistic state stays while the call is in flight.
C31_MutationSupersedesPoll ==
  /\ [][~InFlight /\ InFlight' => ~cache'.fetch.flying]_vars
  /\ [][InFlight /\ InFlight' => cache'.data = cache.data]_vars

\* C32: when a poll of the room fails, with whatever error, the contents of
\* the cache of the room are after the failure what they were before it.
C32_FailedPollKeepsCache ==
  [][\A error \in PollErrors : PollFailedWith(error) => cache'.data = cache.data]_vars

\* One browser in one room whose polls fail with every error of the network
\* and of the canister, while another participant sends and the browser's own
\* send settles.
PollInputs ==
  [AllInputs EXCEPT !.rooms = {RoomA}, !.contents = {"c1"}, !.nicknames = {<<"k">>},
                    !.users = {"u2"}, !.callers = {"user"}]

NextPoll ==
  \/ CreateRoomMain(PollInputs)
  \/ SendMessageMain(PollInputs)
  \/ OnMutate(PollInputs)
  \/ MutationFn
  \/ AttemptReplied
  \/ AttemptRejected
  \/ OnError
  \/ OnSuccess
  \/ PollCall(PollInputs)
  \/ PollCompleted
  \/ PollFailed(PollInputs)
  \/ PollRetry(PollInputs)

SpecPoll == Init /\ [][NextPoll]_vars

\* the retry that follows a failure of a fetch that has failed n times before
RetryScheduled(n) ==
  /\ cache'.fetch.flying /\ cache'.fetch.pc = "wait"
  /\ cache'.fetch.failureCount = n + 1
  /\ cache'.fetch.delay >= cache.fetch.delay
  /\ cache'.fetch.delay <= 3000

\* C33: a poll that ends with a room-not-found result is not retried, and no
\* further poll is issued for the room after it; a poll that fails with a
\* transient error is retried, at most queryRetries times, each retry after a
\* delay that is no shorter than the one before and at most 3000 ms.
C33_PollErrorHandling ==
  /\ [][PollFailedWith(RoomNotFound) =>
          ~cache'.fetch.flying /\ cache'.queryError = RoomNotFoundShown]_vars
  /\ [][PollIssued => cache.queryError # RoomNotFoundShown]_vars
  /\ [][\A e \in TransientErrors :
          PollFailedWith(e) =>
            IF cache.fetch.failureCount < queryRetries
              THEN RetryScheduled(cache.fetch.failureCount)
            ELSE ~cache'.fetch.flying /\ cache'.data = cache.data]_vars
  /\ [](cache.fetch.failureCount <= queryRetries)

\* the ids of the messages getMessages(room) returns from the store s at the
\* time t
VisibleIds(s, t, r) == {v.id : v \in Range(getMessages(s, t, r).ret)}

\* C34: the id a successful sendMessage returns belongs to a message that a
\* getMessages of the room made right after it returns, also when the call was
\* answered with the id of a message stored earlier under the same nonce.
C34_ReturnedIdVisible ==
  \A r \in StoreInputs.rooms, c \in StoreInputs.contents, k \in StoreInputs.nicknames,
     u \in StoreInputs.users, n \in StoreInputs.nonces :
    LET sent == sendMessage(Store, now, r, c, k, u, Null, Null, Null, Null, n)
    IN sent.trap = NoTrap => sent.ret \in VisibleIds(sent.state, now, r)

\* C35: a stored message that was created by sendMessage(room, c, o, n) is
\* what a replay sendMessage(room, c, o, n) answers with: the replay returns
\* its id and creates no message, edited or not in between.  (Every message
\* of this specification was sent with a content of StoreInputs.contents,
\* which holds one content, and edits write another.)
C35_DedupStableUnderEdits ==
  \A r \in DOMAIN messages, c \in StoreInputs.contents, k \in StoreInputs.nicknames :
    \A m \in Range(messages[r]) :
      LET replay == sendMessage(Store, now, r, c, k, m.owner, Null, Null, Null, Null,
                                m.nonce)
      IN /\ replay.trap = NoTrap
         /\ replay.ret = m.id
         /\ replay.newIds = <<>>

\* ------------------------------------------ two mutations that overlap
\* The reaction buttons stay enabled while a send is pending: the user adds a
\* reaction to a message the room shows while the send in hand is in flight.
\* onMutate of useAddReaction cancels the fetch, copies the cache and appends
\* the reaction.
OnMutateSecond(in) ==
  \E r \in in.rooms, id \in ShownIds, e \in in.emojis :
    /\ cache.pc \in {"mutated", "running"} /\ cache.kind = "send"
    /\ cache.second.pc = "idle"
    /\ cache.inRoom
    /\ cache' = [cache EXCEPT
                   !.fetch = NoFetch,
                   !.data = optimisticAddReaction(cache.data, id, ClientUserId, e),
                   !.second = [pc |-> "flying", roomId |-> trim(r), messageId |-> id,
                               emoji |-> e, previousMessages |-> cache.data]]
    /\ UNCHANGED <<storeVars, now, created, snap, sending, exec>>

\* onError of useAddReaction: the copy is written back when there is one
secondOnError(c) ==
  [c EXCEPT !.data = IF truthy(c.second.previousMessages)
                       THEN c.second.previousMessages ELSE @,
            !.second.pc = "error"]

\* onSuccess of useAddReaction: invalidateQueries
secondOnSuccess(c) ==
  [c EXCEPT !.second.pc = "success", !.fetch = NoFetch,
            !.refetch = refetchInterval(queryStatus(c)) = 0]

\* the canister executes the addReaction and answers: mutationFn returns on
\* true and throws on false or on a reject
SecondReplied ==
  LET outcome == addReaction_main(Store, cache.second.roomId, cache.second.messageId,
                                  ClientUserId, cache.second.emoji)
  IN /\ cache.second.pc = "flying"
     /\ Apply(outcome)
     /\ cache' = IF outcome.trap = NoTrap /\ outcome.ret = TRUE
                   THEN secondOnSuccess(cache) ELSE secondOnError(cache)
     /\ UNCHANGED <<now, snap, sending, exec>>

\* the addReaction never reaches the canister
SecondNotDelivered ==
  /\ cache.second.pc = "flying"
  /\ cache' = secondOnError(cache)
  /\ UNCHANGED <<storeVars, now, created, snap, sending, exec>>

\* One browser in one room with another participant's messages: it sends, and
\* while the send is in flight it reacts to a message the room shows.
NextOverlap ==
  \/ CreateRoomMain(OptimisticInputs)
  \/ SendMessageMain(OptimisticInputs)
  \/ PollCall(OptimisticInputs)
  \/ PollCompleted
  \/ OnMutate(OptimisticInputs)
  \/ MutationFn
  \/ AttemptReplied
  \/ AttemptNotDelivered
  \/ RetryAfterDelay
  \/ OnError
  \/ OnSuccess
  \/ OnMutateSecond(OptimisticInputs)
  \/ SecondReplied
  \/ SecondNotDelivered

SpecOverlap == Init /\ [][NextOverlap]_vars

\* the cache shows the reaction of the overlapping mutation
SecondEffect(data) ==
  \E msg \in Range(data.value) :
    /\ msg.id = cache.second.messageId
    /\ [userId |-> ClientUserId, emoji |-> cache.second.emoji] \in Range(msg.reactions)

\* the cache shows the optimistic message of the send in hand
FirstEffect(data) ==
  \E e \in Range(data.value) :
    "isOptimistic" \in DOMAIN e /\ e.optimisticId = cache.context.optimisticId

SecondRollbackStep == cache.second.pc = "flying" /\ cache'.second.pc = "error"

\* C36: when a send and a reaction on the same room overlap, the rollback of
\* the failed one does not remove the optimistic effect of the other from the
\* cache, whether the other is still in flight or has succeeded.
C36_OverlappingRollback ==
  /\ [][RollbackStep /\ cache.second.pc \in {"flying", "success"}
          /\ SecondEffect(cache.data) => SecondEffect(cache'.data)]_vars
  /\ [][SecondRollbackStep /\ cache.pc \in {"mutated", "running", "success"}
          /\ FirstEffect(cache.data) => FirstEffect(cache'.data)]_vars

\* C37: zero is a usable first cursor: fetchMessagesAfterId(room, 0) returns
\* what getMessages(room) returns, every message of the room that has not
\* expired.
C37_ZeroCursor ==
  \A r \in StoreInputs.rooms :
    /\ fetchMessagesAfterId(Store, now, r, 0).trap = getMessages(Store, now, r).trap
    /\ fetchMessagesAfterId(Store, now, r, 0).ret = getMessages(Store, now, r).ret

\* the store `after` differs from the present one in nothing but the content,
\* the media references and isEdited of the message with the id i in room r
EditFrame(after, r, i, c, image, video, audio) ==
  /\ after.activeRooms = activeRooms
  /\ after.nextMessageId = nextMessageId
  /\ after.chatContexts = chatContexts
  /\ DOMAIN after.messages = DOMAIN messages
  /\ \A k \in DOMAIN messages :
       /\ Len(after.messages[k]) = Len(messages[k])
       /\ \A j \in 1..Len(messages[k]) :
            IF k = r /\ messages[k][j].id = i
              THEN after.messages[k][j] =
                     [messages[k][j] EXCEPT !.content = c, !.isEdited = TRUE,
                                            !.imageUrl = image, !.videoUrl = video,
                                            !.audioUrl = audio]
            ELSE after.messages[k][j] = messages[k][j]

\* the call has returned true
Edited(outcome) == outcome.trap = NoTrap /\ outcome.ret

\* the ids of the stored messages that are marked as edited
EditedIds(m) == {msg.id : msg \in {x \in StoredIn(m) : x.isEdited}}

\* C38: a successful editMessage -- of either actor that has one -- changes
\* only the content, the media references and isEdited (to true) of the
\* target; the target's other fields and its place in the list, every other
\* message and the rest of the store are unchanged; and a message that is
\* marked as edited stays marked as long as it is stored.
C38_EditFrame ==
  /\ [](\A r \in StoreInputs.rooms, i \in MessageIds, u \in Users,
          c \in StoreInputs.editContents, image \in {"img", Null} :
          /\ Edited(editMessage(Store, r, i, u, c, image, Null, Null)) =>
               EditFrame(editMessage(Store, r, i, u, c, image, Null, Null).state,
                         r, i, c, image, Null, Null)
          /\ \A caller \in UserCallers :
               Edited(editMessage_main(Store, caller, r, i, u, c, image, Null, Null)) =>
                 EditFrame(editMessage_main(Store, caller, r, i, u, c, image, Null,
                                            Null).state,
                           r, i, c, image, Null, Null))
  /\ [][\A id \in EditedIds(messages) :
          id \in {msg.id : msg \in StoredIn(messages')} => id \in EditedIds(messages')]_vars

\* C38's case: an edit has been made of a message that carries a reaction, in
\* a room that holds a second message, which is not edited.
C38_Witness ==
  /\ RoomA \in DOMAIN messages
  /\ Len(messages[RoomA]) = 2
  /\ \E j \in 1..2 :
       /\ messages[RoomA][j].isEdited /\ messages[RoomA][j].reactions # <<>>
       /\ ~messages[RoomA][3 - j].isEdited

\* ------------------------------------------------------------- two rooms
\* Two rooms whose codes differ by a leading blank, one participant; messages
\* are sent, edited, deleted and reacted to in both.
RoomsInputs ==
  [AllInputs EXCEPT !.rooms = {RoomA, RoomPadded}, !.contents = {"c1"},
                    !.editContents = {"c2"}, !.nicknames = {<<"k">>},
                    !.users = {"u1"}, !.reactors = {"u1"}]

NextRooms ==
  \/ SendMessage(RoomsInputs)
  \/ EditMessage(RoomsInputs)
  \/ DeleteMessage(RoomsInputs)
  \/ AddReaction(RoomsInputs)
  \/ RemoveReaction(RoomsInputs)

SpecRooms == Init /\ [][NextRooms]_vars

\* getMessages(B) returns after the call what it returns before it
SameView(outcome, B) ==
  /\ getMessages(outcome.state, now, B).trap = getMessages(Store, now, B).trap
  /\ getMessages(outcome.state, now, B).ret = getMessages(Store, now, B).ret

\* room B holds a message with the id i
Holds(B, i) == B \in DOMAIN messages /\ indexOfId(messages[B], i) # 0

\* C39: an operation addressed to room A leaves what getMessages(B) returns
\* as it was, for every room B other than A; and editMessage and deleteMessage
\* addressed to A return false for a message that another room holds.
C39_CrossRoomIsolation ==
  \A A \in RoomsInputs.rooms, B \in RoomsInputs.rooms :
    A # B =>
      \A i \in MessageIds, u \in RoomsInputs.users :
        /\ \A c \in Contents, n \in Nonces :
             SameView(sendMessage(Store, now, A, c, <<"k">>, u, Null, Null, Null, Null, n), B)
        /\ SameView(editMessage(Store, A, i, u, "c2", "img", Null, Null), B)
        /\ SameView(deleteMessage(Store, A, i, u), B)
        /\ \A e \in Emojis :
             /\ SameView(addReaction(Store, A, i, u, e), B)
             /\ SameView(removeReaction(Store, A, i, u, e), B)
        /\ Holds(B, i) =>
             /\ ~Edited(editMessage(Store, A, i, u, "c2", "img", Null, Null))
             /\ ~Edited(deleteMessage(Store, A, i, u))

\* C39's case: both rooms hold a message; one of room A's is edited and one
\* of the other room's carries a reaction.
C39_Witness ==
  /\ Holds(RoomA, 1) \/ Holds(RoomA, 2)
  /\ RoomPadded \in DOMAIN messages
  /\ \E j \in 1..Len(messages[RoomA]) : messages[RoomA][j].isEdited
  /\ \E j \in 1..Len(messages[RoomPadded]) : messages[RoomPadded][j].reactions # <<>>

\* ------------------------------------------------------- jump to a reply
\* document.getElementById(`message-${messageId}`): the message is rendered
Rendered(data, messageId) ==
  \E j \in 1..Len(data.value) : data.value[j].id = messageId

\* handleJumpToMessage(messageId), up to `await refetch()`.  refetch() cancels
\* the fetch in flight, if any, and starts one of its own, whatever the
\* interval is.
JumpToMessage(in) ==
  \E r \in in.rooms, messageId \in 1..MaxMsgs :
    /\ cache.inRoom /\ cache.data.value # <<>>
    /\ cache.jump.pc = "idle"
    /\ cache' =
         IF Rendered(cache.data, messageId)
           THEN [cache EXCEPT !.jump = [NoJump EXCEPT !.messageId = messageId,
                                                      !.result = "jumped"]]
         ELSE [cache EXCEPT !.jump = [NoJump EXCEPT !.pc = "refetching",
                                                    !.messageId = messageId,
                                                    !.calls = 1],
                            !.fetch = [NoFetch EXCEPT
                                         !.flying = TRUE, !.forced = TRUE,
                                         !.reply = getMessages_main(Store, now, r).ret],
                            !.refetch = FALSE, !.fetchFailed = FALSE]
    /\ UNCHANGED <<storeVars, now, created, snap, sending, exec>>

\* refetch() has resolved, with the data or with the error, and the timer of
\* 100 ms has fired: the element is looked up again
JumpSettled ==
  /\ cache.jump.pc = "refetching"
  /\ ~cache.fetch.flying
  /\ cache' = [cache EXCEPT !.jump.pc = "idle",
                            !.jump.result = IF Rendered(cache.data, cache.jump.messageId)
                                              THEN "jumped" ELSE "unavailable"]
  /\ UNCHANGED <<storeVars, now, created, snap, sending, exec>>

\* One room, one participant sending, the reader polling and jumping to the
\* messages replied to; the polls fail in every way.
NextJump ==
  \/ CreateRoomMain(PollInputs)
  \/ SendMessageMain(PollInputs)
  \/ PollCall(PollInputs)
  \/ PollCompleted
  \/ PollFailed(PollInputs)
  \/ PollRetry(PollInputs)
  \/ JumpToMessage(PollInputs)
  \/ JumpSettled

SpecJump == Init /\ [][NextJump]_vars

\* the fetch in flight is the one handleJumpToMessage forced
ForcedInFlight == cache.fetch.flying /\ cache.fetch.forced

\* C40: a jump to a message that is not rendered forces exactly one refresh;
\* when the refresh is over the jump is made if the message is rendered and
\* "unavailable" is reported otherwise; and the refresh puts the query in no
\* error state, leaves the polling interval on and, when it fails, leaves the
\* cache as it was.
C40_JumpToReply ==
  /\ [][JumpSettled =>
          /\ cache.jump.calls = 1
          /\ cache'.jump.result =
               IF Rendered(cache.data, cache.jump.messageId) THEN "jumped"
               ELSE "unavailable"]_vars
  /\ [][ForcedInFlight =>
          /\ queryStatus(cache) # "error" => queryStatus(cache') # "error"
          /\ refetchInterval(queryStatus(cache)) > 0 =>
               refetchInterval(queryStatus(cache')) > 0
          /\ \A error \in PollErrors :
               PollFailedWith(error) => cache'.data = cache.data]_vars
====
